---------------------------- MODULE Spec2Model ----------------------------
(***************************************************************************)
(* WebPlayer: streaming media player core.                                 *)
(*                                                                         *)
(* State machines of the RingBuffer, the MediaClock, the three container   *)
(* demuxers' chunk delivery and the playback orchestrator (WebPlayer), as  *)
(* written in src/, with the properties checked against them.              *)
(*                                                                         *)
(* Numbers: JavaScript numbers are modelled as exact integers              *)
(* (milliseconds for wall clocks, microseconds for media time).            *)
(* An optional value (T | null) is a sequence of length 0 or 1.            *)
(***************************************************************************)
EXTENDS Integers, Sequences, FiniteSets, TLC

(***************************************************************************)
(* Bounds of the model.                                                    *)
(***************************************************************************)
MaxCap == 3
MaxItem == 2
MaxFeed == 4
MaxWall == 3
MaxRate == 2
MaxStartTs == 2
MaxSamples == 4
MaxTime == 2
MaxLoads == 2
MaxFrames == 1
MaxChunks == 1
MaxSources == 1
MaxOverrun == 1
MaxQueue == 122
MaxSent == 7
MaxBpSent == 1
MaxSwClusters == 2
MaxSwBlocks == 2
MaxSwSelects == 2
MaxOpens == 2
MaxReads == 2
MaxDelivered == 2
MaxBlocks == 4
MaxAudioTs == 3
MaxAdvance == 3
MaxSubBlocks == 3
MaxOpenReads == 4
MaxHttpReads == 2
MaxRetryCount == 2
MaxAdtsFrames == 2
MaxPesBytes == 9
MaxNoPts == 1
MaxPumpChunks == 9
MaxPumpChunksWithAudio == 3
MaxPumpAudioChunks == 2
MaxTsBuffers == 3
MaxTsPackets == 3

VARIABLES
  ring,        \* RingBuffer under test: [capacity, buffer, head, tail, count]
  ringPhase,   \* "ops" (free operations) | "feed" | "drain"
  ringLast,    \* the last RingBuffer operation: [op, ok, value, before]
  fed,         \* items fed through the overflow policy, in order
  drained,     \* items shifted out after feeding, in order
  clock,       \* MediaClock fields
  wallMs,      \* the wall clock the caller passes to the clock (ms)
  perfMs,      \* performance.now() (ms)
  clockLast,   \* the last MediaClock operation: [op, wall, before]
  dmx,         \* demuxer under test: container kind, parameters, extraction state
  stored,      \* per track, the times the container held so far: [some, last, ordered]
  emitted,     \* per track, the timestamps the chunk callback received: [some, last, ordered]
  wp,          \* WebPlayer fields
  loads,       \* per load call: the await it is suspended at, its arguments
  dmxs,        \* per load call: its demuxer object
  vdecs,       \* per load call: its VideoDecoder object
  adecs,       \* per load call: its AudioDecoder object
  closes,      \* per VideoFrame: how often close() was called on it
  ghost,       \* history: stop returned, pause called, frames handed over
  ctl,         \* one MKV/TS demuxer instance under open/start/stop: its flags and extract loops
  look,        \* the video look-ahead of one MKV/TS extract loop and the chunks it delivered
  aud,         \* audio scheduling: the AudioContext's time, the clock base, the last block
  sub,         \* the text-subtitle path of one MKV extract loop: pending cue, blocks read, cues delivered
  opn,         \* one open() call of an MP4 or MKV demuxer: reads done, promises
  http,        \* openHttpByteSource and its source
  adts,        \* TS audio path: ADTS framing
  pmp,         \* video pump and render loop of one session
  tsx,         \* one TSDemuxer extract loop, packet by packet
  pck,         \* the player's pause flag and media clock under decoder outputs
  sw           \* an MKVDemuxer's subtitle selection, extract loop and PGS scans

ringVars == <<ring, ringPhase, ringLast, fed, drained>>
clockVars == <<clock, wallMs, perfMs, clockLast>>
demuxVars == <<dmx, stored, emitted>>
playerVars == <<wp, loads, dmxs, vdecs, adecs, closes, ghost>>
ctlVars == <<ctl>>
lookVars == <<look>>
audioVars == <<aud>>
subVars == <<sub>>
opnVars == <<opn>>
httpVars == <<http>>
adtsVars == <<adts>>
pmpVars == <<pmp>>
tsxVars == <<tsx>>
pckVars == <<pck>>
swVars == <<sw>>
vars == <<ringVars, clockVars, demuxVars, playerVars, ctlVars, lookVars, audioVars, subVars, opnVars, httpVars, adtsVars, pmpVars, tsxVars, pckVars, swVars>>

\* What each specification leaves alone.
notRing == <<clockVars, demuxVars, playerVars, ctlVars, lookVars, audioVars, subVars, opnVars, httpVars, adtsVars, pmpVars, tsxVars, pckVars, swVars>>
notClock == <<ringVars, demuxVars, playerVars, ctlVars, lookVars, audioVars, subVars, opnVars, httpVars, adtsVars, pmpVars, tsxVars, pckVars, swVars>>
notDemux == <<ringVars, clockVars, playerVars, ctlVars, lookVars, audioVars, subVars, opnVars, httpVars, adtsVars, pmpVars, tsxVars, pckVars, swVars>>
notPlayer == <<ringVars, clockVars, demuxVars, ctlVars, lookVars, audioVars, subVars, opnVars, httpVars, adtsVars, pmpVars, tsxVars, pckVars, swVars>>
notCtl == <<ringVars, clockVars, demuxVars, playerVars, lookVars, audioVars, subVars, opnVars, httpVars, adtsVars, pmpVars, tsxVars, pckVars, swVars>>
notLook == <<ringVars, clockVars, demuxVars, playerVars, ctlVars, audioVars, subVars, opnVars, httpVars, adtsVars, pmpVars, tsxVars, pckVars, swVars>>
notAudio == <<ringVars, clockVars, demuxVars, playerVars, ctlVars, lookVars, subVars, opnVars, httpVars, adtsVars, pmpVars, tsxVars, pckVars, swVars>>
notSub == <<ringVars, clockVars, demuxVars, playerVars, ctlVars, lookVars, audioVars, opnVars, httpVars, adtsVars, pmpVars, tsxVars, pckVars, swVars>>
notOpen == <<ringVars, clockVars, demuxVars, playerVars, ctlVars, lookVars, audioVars, subVars, httpVars, adtsVars, pmpVars, tsxVars, pckVars, swVars>>
notHttp == <<ringVars, clockVars, demuxVars, playerVars, ctlVars, lookVars, audioVars, subVars, opnVars, adtsVars, pmpVars, tsxVars, pckVars, swVars>>
notAdts == <<ringVars, clockVars, demuxVars, playerVars, ctlVars, lookVars, audioVars, subVars, opnVars, httpVars, pmpVars, tsxVars, pckVars, swVars>>
notPump == <<ringVars, clockVars, demuxVars, playerVars, ctlVars, lookVars, audioVars, subVars, opnVars, httpVars, adtsVars, tsxVars, pckVars, swVars>>
notTsx == <<ringVars, clockVars, demuxVars, playerVars, ctlVars, lookVars, audioVars, subVars, opnVars, httpVars, adtsVars, pmpVars, pckVars, swVars>>
notPck == <<ringVars, clockVars, demuxVars, playerVars, ctlVars, lookVars, audioVars, subVars, opnVars, httpVars, adtsVars, pmpVars, tsxVars, swVars>>
notSw == <<ringVars, clockVars, demuxVars, playerVars, ctlVars, lookVars, audioVars, subVars, opnVars, httpVars, adtsVars, pmpVars, tsxVars, pckVars>>

Null == <<>>
Some(x) == <<x>>
IsNull(o) == o = <<>>
Val(o) == o[1]

Min(a, b) == IF a <= b THEN a ELSE b
Max(a, b) == IF a >= b THEN a ELSE b

(***************************************************************************)
(* RingBuffer<T>  (core/buffer-manager)                                    *)
(***************************************************************************)
Undefined == 0
Items == 1..MaxItem

RB_new(capacity) ==
  [capacity |-> capacity,
   buffer |-> [i \in 0..(capacity - 1) |-> Undefined],
   head |-> 0, tail |-> 0, count |-> 0]

RB_length(rb) == rb.count

RB_clear(rb) ==
  [rb EXCEPT !.buffer = [i \in 0..(rb.capacity - 1) |-> Undefined],
             !.head = 0, !.tail = 0, !.count = 0]

RB_push_noFullCheck(rb, value) ==
  [rb |-> [rb EXCEPT !.buffer[rb.tail] = value,
                     !.tail = (rb.tail + 1) % rb.capacity,
                     !.count = rb.count + 1],
   ok |-> TRUE]

RB_push(rb, value) ==
  IF rb.count >= rb.capacity
    THEN [rb |-> rb, ok |-> FALSE]
    ELSE [rb |-> [rb EXCEPT !.buffer[rb.tail] = value,
                            !.tail = (rb.tail + 1) % rb.capacity,
                            !.count = rb.count + 1],
          ok |-> TRUE]

RB_shift_headStuck(rb) ==
  IF rb.count = 0
    THEN [rb |-> rb, value |-> Undefined]
    ELSE [rb |-> [rb EXCEPT !.buffer[rb.head] = Undefined,
                            !.count = rb.count - 1],
          value |-> rb.buffer[rb.head]]

RB_shift(rb) ==
  IF rb.count = 0
    THEN [rb |-> rb, value |-> Undefined]
    ELSE [rb |-> [rb EXCEPT !.buffer[rb.head] = Undefined,
                            !.head = (rb.head + 1) % rb.capacity,
                            !.count = rb.count - 1],
          value |-> rb.buffer[rb.head]]

RB_peek(rb) == IF rb.count = 0 THEN Undefined ELSE rb.buffer[rb.head]

\* The buffered values, oldest first (what successive shifts would return).
RB_contents(rb) ==
  [i \in 1..rb.count |-> rb.buffer[(rb.head + i - 1) % rb.capacity]]

(***************************************************************************)
(* WebPlayer.onDecodedVideoFrame, lines 1682-1686: push; when the ring is  *)
(* full, shift the head, close it, push again.  Returns the new ring and   *)
(* the frames closed.                                                      *)
(***************************************************************************)
WP_enqueueFrame(rb, frame) ==
  LET first == RB_push(rb, frame) IN
  IF first.ok
    THEN [rb |-> first.rb, closed |-> <<>>]
    ELSE LET dropped == RB_shift(rb) IN
         [rb |-> RB_push(dropped.rb, frame).rb,
          closed |-> IF dropped.value = Undefined THEN <<>> ELSE <<dropped.value>>]

(***************************************************************************)
(* MediaClock  (core/clock)                                                *)
(***************************************************************************)
MC_new ==
  [baseTimestampUs |-> 0, baseWallClockMs |-> 0,
   pausedAtWallClockMs |-> Null, pausedAtTimestampUs |-> 0,
   playbackRate |-> 1]

MC_nowUs_ignoresRate(c, nowWallClockMs) ==
  IF ~IsNull(c.pausedAtWallClockMs)
    THEN c.pausedAtTimestampUs
    ELSE c.baseTimestampUs + (nowWallClockMs - c.baseWallClockMs) * 1000

MC_nowUs(c, nowWallClockMs) ==
  IF ~IsNull(c.pausedAtWallClockMs)
    THEN c.pausedAtTimestampUs
    ELSE LET elapsedMs == nowWallClockMs - c.baseWallClockMs IN
         c.baseTimestampUs + elapsedMs * 1000 * c.playbackRate

MC_start(c, startTimestampUs, nowWallClockMs) ==
  [c EXCEPT !.baseTimestampUs = startTimestampUs,
            !.baseWallClockMs = nowWallClockMs,
            !.pausedAtWallClockMs = Null,
            !.pausedAtTimestampUs = startTimestampUs]

\* setRate reads performance.now() both for the current reading and the new base.
MC_setRate(c, rate, perfNow) ==
  LET current == MC_nowUs(c, perfNow)
      c1 == [c EXCEPT !.playbackRate = rate] IN
  IF IsNull(c.pausedAtWallClockMs)
    THEN [c1 EXCEPT !.baseTimestampUs = current, !.baseWallClockMs = perfNow]
    ELSE [c1 EXCEPT !.pausedAtTimestampUs = current]

\* pause assigns pausedAtWallClockMs first and then evaluates nowUs on the
\* updated object (lines 205-206).
MC_pause(c, nowWallClockMs) ==
  IF ~IsNull(c.pausedAtWallClockMs)
    THEN c
    ELSE LET c1 == [c EXCEPT !.pausedAtWallClockMs = Some(nowWallClockMs)] IN
         [c1 EXCEPT !.pausedAtTimestampUs = MC_nowUs(c1, nowWallClockMs)]

MC_resume(c, nowWallClockMs) ==
  IF IsNull(c.pausedAtWallClockMs)
    THEN c
    ELSE [c EXCEPT !.baseTimestampUs = c.pausedAtTimestampUs,
                   !.baseWallClockMs = nowWallClockMs,
                   !.pausedAtWallClockMs = Null]

MC_seek(c, timestampUs, nowWallClockMs) ==
  LET c1 == [c EXCEPT !.baseTimestampUs = timestampUs,
                      !.baseWallClockMs = nowWallClockMs] IN
  IF ~IsNull(c.pausedAtWallClockMs)
    THEN [c1 EXCEPT !.pausedAtTimestampUs = timestampUs,
                    !.pausedAtWallClockMs = Some(nowWallClockMs)]
    ELSE c1

MC_isPaused(c) == ~IsNull(c.pausedAtWallClockMs)

(***************************************************************************)
(* SpecRing: a RingBuffer of capacity 1..MaxCap driven either by arbitrary *)
(* push/shift/peek/clear calls ("ops") or by the orchestrator's overflow   *)
(* policy followed by a drain ("feed" then "drain").                       *)
(***************************************************************************)
NoRingOp == [op |-> "none", ok |-> TRUE, value |-> Undefined, before |-> RB_new(1)]

RingInit ==
  /\ \E c \in 1..MaxCap : ring = RB_new(c)
  /\ ringPhase \in {"ops", "feed"}
  /\ ringLast = NoRingOp
  /\ fed = <<>>
  /\ drained = <<>>

RingIdle ==
  /\ ring = RB_new(1)
  /\ ringPhase = "ops"
  /\ ringLast = NoRingOp
  /\ fed = <<>>
  /\ drained = <<>>

RingPush ==
  /\ ringPhase = "ops"
  /\ \E v \in Items :
       LET r == RB_push(ring, v) IN
       /\ ring' = r.rb
       /\ ringLast' = [op |-> "push", ok |-> r.ok, value |-> v, before |-> ring]
  /\ UNCHANGED <<ringPhase, fed, drained>>
  /\ UNCHANGED notRing

RingShift ==
  /\ ringPhase = "ops"
  /\ LET r == RB_shift(ring) IN
       /\ ring' = r.rb
       /\ ringLast' = [op |-> "shift", ok |-> TRUE, value |-> r.value, before |-> ring]
  /\ UNCHANGED <<ringPhase, fed, drained>>
  /\ UNCHANGED notRing

RingPeek ==
  /\ ringPhase = "ops"
  /\ ringLast' = [op |-> "peek", ok |-> TRUE, value |-> RB_peek(ring), before |-> ring]
  /\ UNCHANGED <<ring, ringPhase, fed, drained>>
  /\ UNCHANGED notRing

RingClear ==
  /\ ringPhase = "ops"
  /\ ring' = RB_clear(ring)
  /\ ringLast' = [op |-> "clear", ok |-> TRUE, value |-> Undefined, before |-> ring]
  /\ UNCHANGED <<ringPhase, fed, drained>>
  /\ UNCHANGED notRing

RingFeed ==
  /\ ringPhase = "feed"
  /\ Len(fed) < MaxFeed
  /\ \E v \in Items :
       /\ ring' = WP_enqueueFrame(ring, v).rb
       /\ fed' = Append(fed, v)
  /\ UNCHANGED <<ringPhase, ringLast, drained>>
  /\ UNCHANGED notRing

RingStartDrain ==
  /\ ringPhase = "feed"
  /\ ringPhase' = "drain"
  /\ UNCHANGED <<ring, ringLast, fed, drained>>
  /\ UNCHANGED notRing

RingDrain ==
  /\ ringPhase = "drain"
  /\ RB_length(ring) > 0
  /\ LET r == RB_shift(ring) IN
       /\ ring' = r.rb
       /\ drained' = Append(drained, r.value)
  /\ UNCHANGED <<ringPhase, ringLast, fed>>
  /\ UNCHANGED notRing

(***************************************************************************)
(* SpecClock: a MediaClock driven by arbitrary operations while the two    *)
(* wall clocks advance.                                                    *)
(***************************************************************************)
Walls == 0..MaxWall
StartTimestamps == {t * 1000 : t \in 0..MaxStartTs}
Rates == 1..MaxRate

ClockInit ==
  /\ clock = MC_new
  /\ wallMs = 0
  /\ perfMs = 0
  /\ clockLast = [op |-> "new", wall |-> 0, before |-> 0]

ClockStart ==
  /\ \E ts \in StartTimestamps :
       /\ clock' = MC_start(clock, ts, wallMs)
       /\ clockLast' = [op |-> "start", wall |-> wallMs, before |-> MC_nowUs(clock, wallMs)]
  /\ UNCHANGED <<wallMs, perfMs>>
  /\ UNCHANGED notClock

ClockPause ==
  /\ clock' = MC_pause(clock, wallMs)
  /\ clockLast' = [op |-> "pause", wall |-> wallMs, before |-> MC_nowUs(clock, wallMs)]
  /\ UNCHANGED <<wallMs, perfMs>>
  /\ UNCHANGED notClock

ClockResume ==
  /\ clock' = MC_resume(clock, wallMs)
  /\ clockLast' = [op |-> "resume", wall |-> wallMs, before |-> MC_nowUs(clock, wallMs)]
  /\ UNCHANGED <<wallMs, perfMs>>
  /\ UNCHANGED notClock

ClockSeek ==
  /\ \E ts \in StartTimestamps :
       /\ clock' = MC_seek(clock, ts, wallMs)
       /\ clockLast' = [op |-> "seek", wall |-> wallMs, before |-> MC_nowUs(clock, wallMs)]
  /\ UNCHANGED <<wallMs, perfMs>>
  /\ UNCHANGED notClock

ClockSetRate ==
  /\ \E r \in Rates :
       /\ clock' = MC_setRate(clock, r, perfMs)
       /\ clockLast' = [op |-> "setRate", wall |-> perfMs, before |-> MC_nowUs(clock, perfMs)]
  /\ UNCHANGED <<wallMs, perfMs>>
  /\ UNCHANGED notClock

AdvanceWall ==
  /\ wallMs < MaxWall
  /\ wallMs' = wallMs + 1
  /\ UNCHANGED <<clock, perfMs, clockLast>>
  /\ UNCHANGED notClock

AdvancePerf ==
  /\ perfMs < MaxWall
  /\ perfMs' = perfMs + 1
  /\ UNCHANGED <<clock, wallMs, clockLast>>
  /\ UNCHANGED notClock

(***************************************************************************)
(* Demuxers: the timestamps of the chunks handed to the chunk callbacks.   *)
(*                                                                         *)
(* The container is read in stored order.  Each action is one delivery     *)
(* step of one demuxer: MP4Demuxer's onSamples handler, MKVDemuxer's       *)
(* handleBlock, TSDemuxer's handling of a completed PES, and the           *)
(* end-of-stream flush of the MKV/TS look-ahead.                           *)
(***************************************************************************)
\* Math.round(n / d) for d > 0: the nearest integer, halves towards +infinity.
RoundDiv(n, d) ==
  LET q == n \div d
      r == n % d IN
  IF 2 * r >= d THEN q + 1 ELSE q

\* mp4-demuxer.ts toMicroseconds
toMicroseconds(value, timescale) ==
  IF timescale <= 0 THEN 0 ELSE RoundDiv(value * 1000000, timescale)

\* ts-demuxer.ts pts90kToUs: Math.round(pts90k * 1e6 / 90000), with the
\* fraction 1e6 / 90000 written in lowest terms, 100 / 9.
pts90kToUs(pts90k) == RoundDiv(pts90k * 100, 9)

\* MKVDemuxer.handleBlock, lines 1336-1337
MKV_timestampUs_noCluster(clusterTimecode, relTimecode, timecodeScaleNs) ==
  RoundDiv(relTimecode * timecodeScaleNs, 1000)

MKV_timestampUs(clusterTimecode, relTimecode, timecodeScaleNs) ==
  LET timecode == clusterTimecode + relTimecode IN
  RoundDiv(timecode * timecodeScaleNs, 1000)

Abs(x) == IF x < 0 THEN -x ELSE x

\* TSDemuxer.runExtractLoop, lines 909-910: the running audio timestamp at a
\* PES boundary.
TS_audioResync(audioNextTimestampUs, ptsUs) ==
  IF IsNull(audioNextTimestampUs) THEN ptsUs
  ELSE IF Abs(ptsUs - Val(audioNextTimestampUs)) > 500000 THEN ptsUs
  ELSE Val(audioNextTimestampUs)

\* TSDemuxer.runExtractLoop, lines 799-803 and 926
TS_frameDurUs(samplesPerFrame, sampleRate) ==
  RoundDiv(samplesPerFrame * 1000000, sampleRate)

Tracks == {"video", "audio"}

NoTrace == [some |-> 0, last |-> Null, ordered |-> TRUE]

\* One more timestamp on a track's trace: some counts 0, 1, "2 or more".
Trace(tr, ts) ==
  [some |-> Min(tr.some + 1, 2),
   last |-> Some(ts),
   ordered |-> tr.ordered /\ (IsNull(tr.last) \/ Val(tr.last) <= ts)]

\* n timestamps first, first + dur, ... on a track's trace.
RECURSIVE TraceRun(_, _, _, _)
TraceRun(tr, first, dur, n) ==
  IF n = 0 THEN tr ELSE TraceRun(Trace(tr, first), first + dur, dur, n - 1)

Timescales == {1, 3}
TimecodeScales == {1000000, 1500}
\* TS audio track formats: ADTS AAC (ADTS sample-rate table) and MP3 Layer III
\* (MP3_SAMPLE_RATES_*), one fast and one slow rate of each.
AudioFormats ==
  {[codec |-> "aac", sampleRate |-> 48000], [codec |-> "aac", sampleRate |-> 7350],
   [codec |-> "mp3", sampleRate |-> 48000], [codec |-> "mp3", sampleRate |-> 8000]}
Pts90kValues == {k * 30000 : k \in 0..MaxTime}
RelTimecodes == {-1, 0, 1}

DemuxNew(kind, timescale, timecodeScaleNs, sampleRate, codec, sampleCount) ==
  [kind |-> kind,
   timescale |-> timescale,              \* MP4 track timescale
   sampleCount |-> sampleCount,          \* MP4 track.sampleCount, per track
   extracted |-> [t \in Tracks |-> 0],   \* MP4 target.extracted
   ended |-> [t \in Tracks |-> FALSE],   \* onEnd called
   timecodeScaleNs |-> timecodeScaleNs,  \* MKV
   clusterTimecode |-> 0,                \* MKV runExtractLoop local
   pendingVideo |-> Null,                \* MKV / TS one-chunk look-ahead
   audioNextTimestampUs |-> Null,        \* TS
   audioBackResync |-> FALSE,            \* TS: a PES PTS reset the running audio
                                         \* timestamp to an earlier value
   sampleRate |-> sampleRate,            \* TS audio track
   codec |-> codec,                      \* TS audio track: "aac" | "mp3"
   finished |-> FALSE,                   \* MKV / TS: extract loop returned
   read |-> 0]                           \* MKV / TS: blocks / PES read so far

DemuxInit ==
  /\ \E kind \in {"mp4", "mkv", "ts"}, tsc \in Timescales, scale \in TimecodeScales,
        fmt \in AudioFormats, n \in 1..MaxSamples :
       dmx = DemuxNew(kind,
                      IF kind = "mp4" THEN tsc ELSE 1,
                      IF kind = "mkv" THEN scale ELSE 1000000,
                      IF kind = "ts" THEN fmt.sampleRate ELSE 48000,
                      IF kind = "ts" THEN fmt.codec ELSE "aac",
                      IF kind = "mp4" THEN n ELSE 0)
  /\ stored = [t \in Tracks |-> NoTrace]
  /\ emitted = [t \in Tracks |-> NoTrace]

DemuxIdle ==
  /\ dmx = DemuxNew("mp4", 1, 1000000, 48000, "aac", 0)
  /\ stored = [t \in Tracks |-> NoTrace]
  /\ emitted = [t \in Tracks |-> NoTrace]

\* MP4Demuxer onSamples handler (lines 203-234) for one delivered sample of
\* track t, then maybeEndVideo / maybeEndAudio (lines 237-251).
MP4_onSamples ==
  /\ dmx.kind = "mp4"
  /\ \E t \in Tracks, cts \in 0..MaxTime :
       LET ts == toMicroseconds(cts, dmx.timescale)
           n == dmx.extracted[t] + 1 IN
       /\ dmx.extracted[t] < dmx.sampleCount
       /\ stored' = [stored EXCEPT ![t] = Trace(@, cts)]
       /\ emitted' = [emitted EXCEPT ![t] = Trace(@, ts)]
       /\ dmx' = [dmx EXCEPT !.extracted[t] = n,
                             !.ended[t] = @ \/ (dmx.sampleCount > 0 /\ n >= dmx.sampleCount)]
  /\ UNCHANGED notDemux

\* MKVDemuxer.parseCluster reading a Cluster Timecode element (lines 989-991).
MKV_clusterTimecode ==
  /\ dmx.kind = "mkv"
  /\ ~dmx.finished
  /\ \E tc \in 0..MaxTime : dmx' = [dmx EXCEPT !.clusterTimecode = tc]
  /\ dmx'.clusterTimecode # dmx.clusterTimecode
  /\ UNCHANGED <<stored, emitted>>
  /\ UNCHANGED notDemux

\* MKVDemuxer.handleBlock (lines 1270-1405) on a block of the video or the
\* audio track: laced video blocks and blocks without payload are dropped,
\* audio is delivered at once, video through the one-chunk look-ahead.
MKV_handleBlock ==
  /\ dmx.kind = "mkv"
  /\ ~dmx.finished
  /\ dmx.read < MaxSamples
  /\ \E t \in Tracks, relTimecode \in RelTimecodes, laced \in BOOLEAN, hasPayload \in BOOLEAN :
       LET timestampUs == MKV_timestampUs(dmx.clusterTimecode, relTimecode,
                                          dmx.timecodeScaleNs)
           dropped == (laced /\ t = "video") \/ ~hasPayload IN
       /\ stored' = [stored EXCEPT ![t] = Trace(@, dmx.clusterTimecode + relTimecode)]
       /\ IF dropped
            THEN /\ dmx' = [dmx EXCEPT !.read = @ + 1]
                 /\ UNCHANGED emitted
            ELSE IF t = "audio"
              THEN /\ emitted' = [emitted EXCEPT !["audio"] = Trace(@, timestampUs)]
                   /\ dmx' = [dmx EXCEPT !.read = @ + 1]
              ELSE /\ emitted' = IF IsNull(dmx.pendingVideo)
                                   THEN emitted
                                   ELSE [emitted EXCEPT
                                           !["video"] = Trace(@, Val(dmx.pendingVideo))]
                   /\ dmx' = [dmx EXCEPT !.pendingVideo = Some(timestampUs),
                                         !.read = @ + 1]
  /\ UNCHANGED notDemux

\* TSDemuxer.runExtractLoop on a completed PES of the video PID (lines 888-906).
TS_videoPes ==
  /\ dmx.kind = "ts"
  /\ ~dmx.finished
  /\ dmx.read < MaxSamples
  /\ \E pts90k \in Pts90kValues, hasPts \in BOOLEAN :
       LET ptsUs == pts90kToUs(pts90k) IN
       /\ stored' = IF hasPts THEN [stored EXCEPT !["video"] = Trace(@, pts90k)]
                              ELSE stored
       /\ IF ~hasPts
            THEN /\ dmx' = [dmx EXCEPT !.read = @ + 1]
                 /\ UNCHANGED emitted
            ELSE /\ emitted' = IF IsNull(dmx.pendingVideo)
                                 THEN emitted
                                 ELSE [emitted EXCEPT
                                         !["video"] = Trace(@, Val(dmx.pendingVideo))]
                 /\ dmx' = [dmx EXCEPT !.pendingVideo = Some(ptsUs), !.read = @ + 1]
  /\ UNCHANGED notDemux

\* TSDemuxer.runExtractLoop on a completed PES of the audio PID (lines 908-960):
\* resynchronise the running timestamp, then deliver the nFrames complete
\* frames found in remainder + PES payload.
TS_audioPes ==
  /\ dmx.kind = "ts"
  /\ ~dmx.finished
  /\ dmx.read < MaxSamples
  /\ \E pts90k \in Pts90kValues, hasPts \in BOOLEAN, nFrames \in 0..2,
        samplesPerFrame \in {1152, 576} :
       LET ptsUs == pts90kToUs(pts90k)
           next == TS_audioResync(dmx.audioNextTimestampUs, ptsUs)
           durUs == IF dmx.codec = "mp3"
                      THEN TS_frameDurUs(samplesPerFrame, dmx.sampleRate)
                      ELSE TS_frameDurUs(1024, dmx.sampleRate)
           back == /\ ~IsNull(dmx.audioNextTimestampUs)
                   /\ next < Val(dmx.audioNextTimestampUs) IN
       /\ stored' = IF hasPts THEN [stored EXCEPT !["audio"] = Trace(@, pts90k)]
                              ELSE stored
       /\ IF ~hasPts
            THEN /\ dmx' = [dmx EXCEPT !.read = @ + 1]
                 /\ UNCHANGED emitted
            ELSE /\ emitted' = [emitted EXCEPT
                                  !["audio"] = TraceRun(@, next, durUs, nFrames)]
                 /\ dmx' = [dmx EXCEPT
                              !.read = @ + 1,
                              !.audioNextTimestampUs = Some(next + nFrames * durUs),
                              !.audioBackResync = @ \/ back]
  /\ UNCHANGED notDemux

\* MKVDemuxer.runExtractLoop lines 954-966 / TSDemuxer.runExtractLoop lines
\* 1068-1080: at the end of the stream the look-ahead chunk is delivered with
\* duration 0 and both end-of-track callbacks are called.
DemuxEndOfStream ==
  /\ dmx.kind \in {"mkv", "ts"}
  /\ ~dmx.finished
  /\ emitted' = IF IsNull(dmx.pendingVideo)
                  THEN emitted
                  ELSE [emitted EXCEPT !["video"] = Trace(@, Val(dmx.pendingVideo))]
  /\ dmx' = [dmx EXCEPT !.finished = TRUE, !.pendingVideo = Null,
                        !.ended = [t \in Tracks |-> TRUE]]
  /\ UNCHANGED stored
  /\ UNCHANGED notDemux

(***************************************************************************)
(* The playback orchestrator, WebPlayer.                                   *)
(*                                                                         *)
(* Each load call is a task with its own demuxer, video decoder and audio  *)
(* decoder objects; a task is suspended at the awaits of loadFile /        *)
(* loadUrl / startWebCodecsDemuxerPipeline and every other handler may run *)
(* in between.  Media time is an input here: which frames are due at a     *)
(* render tick and whether audio is buffered ahead are chosen by the       *)
(* environment.  Spec follows overlapping loads of sources without an      *)
(* audio track; SpecSession follows one established session, with or       *)
(* without audio, through its encoded queues.                              *)
(***************************************************************************)
HighWater == 120
LowWater == 40
FrameQueueCapacity == 8
MaxDecodeQueue == 4
MaxAudioDecodeQueue == 8
FramesHeadroom == 2

LoadIds == 1..MaxLoads
FrameIds == 1..MaxFrames

\* A demuxer object (MP4Demuxer / MKVDemuxer / TSDemuxer extraction control).
DMX_new ==
  [opened |-> FALSE, stopped |-> FALSE, extracting |-> FALSE, paused |-> FALSE,
   video |-> FALSE,    \* video callbacks registered
   audio |-> FALSE,    \* audio callbacks registered
   overrun |-> 0]      \* chunks delivered since the pause, before it is observed

DMX_open(d) == [d EXCEPT !.opened = TRUE]

DMX_startVideoExtraction(d) ==
  [d EXCEPT !.extracting = TRUE, !.paused = FALSE, !.video = TRUE, !.overrun = 0]

DMX_startAudioExtraction(d) ==
  [d EXCEPT !.extracting = TRUE, !.paused = FALSE, !.audio = TRUE, !.overrun = 0]

DMX_stop(d) ==
  [d EXCEPT !.stopped = TRUE, !.extracting = FALSE, !.paused = FALSE,
            !.video = FALSE, !.audio = FALSE, !.overrun = 0]

DMX_pauseExtraction(d) ==
  IF ~d.opened \/ d.stopped \/ ~d.extracting \/ d.paused THEN d
  ELSE [d EXCEPT !.paused = TRUE, !.overrun = 0]

DMX_resumeExtraction(d) ==
  IF ~d.opened \/ d.stopped \/ ~d.extracting \/ ~d.paused THEN d
  ELSE [d EXCEPT !.paused = FALSE]

DMX_live(d) == d.opened /\ ~d.stopped

\* The extract loop can hand a chunk to its callback: it is running, or it was
\* paused while it was working on a block and has not looked at the flag yet.
DMX_canDeliver(d) ==
  d.opened /\ ~d.stopped /\ d.extracting /\ (~d.paused \/ d.overrun < MaxOverrun)

DMX_deliver(d) == [d EXCEPT !.overrun = IF d.paused THEN @ + 1 ELSE @]

\* Extraction is going on: started, not stopped, not paused.
DMX_running(d) == d.opened /\ ~d.stopped /\ d.extracting /\ ~d.paused

\* A WebCodecs decoder object: state and decodeQueueSize.
DEC_none == [state |-> "none", queued |-> 0]
DEC_new == [state |-> "unconfigured", queued |-> 0]
DEC_configure(d) == [d EXCEPT !.state = "configured"]
DEC_close(d) == [state |-> "closed", queued |-> 0]
DEC_decode(d, n) == [d EXCEPT !.queued = @ + n]
DEC_live(d) == d.state \in {"unconfigured", "configured"}

\* WebPlayer fields after construction.
WP_new ==
  [renderer |-> FALSE,
   pipeline |-> "none",
   videoEl |-> FALSE,
   demuxer |-> Null,
   videoDecoder |-> Null,
   encodedQueue |-> 0,
   demuxEnded |-> FALSE,
   decodeFlushPromise |-> FALSE,
   audioContext |-> FALSE,
   audioDecoder |-> Null,
   encodedAudioQueue |-> 0,
   audioDemuxEnded |-> FALSE,
   audioDecodeFlushPromise |-> FALSE,
   audioSources |-> 0,
   waitingForAudioClock |-> FALSE,
   frameQueue |-> RB_new(FrameQueueCapacity),
   renderLoopRaf |-> FALSE,
   clockStarted |-> FALSE,
   paused |-> FALSE]

\* The objects the handlers act on, as one value W:
\*   W.wp     the WebPlayer fields
\*   W.dmxs   the demuxer object of each load
\*   W.vdecs  the VideoDecoder object of each load
\*   W.adecs  the AudioDecoder object of each load
\*   W.closes how often close() was called on each VideoFrame
WP_isWebCodecsPipeline(W) ==
  W.wp.pipeline \in {"webcodecs-mp4", "webcodecs-mkv", "webcodecs-ts"}

WP_updateDemuxerBackpressure(W) ==
  IF IsNull(W.wp.demuxer) THEN W
  ELSE LET id == Val(W.wp.demuxer) IN
    IF W.wp.paused
      THEN [W EXCEPT !.dmxs[id] = DMX_pauseExtraction(@)]
    ELSE IF \/ W.wp.encodedQueue >= HighWater
            \/ (~IsNull(W.wp.audioDecoder) /\ W.wp.encodedAudioQueue >= HighWater)
      THEN [W EXCEPT !.dmxs[id] = DMX_pauseExtraction(@)]
    ELSE IF /\ W.wp.encodedQueue <= LowWater
            /\ (IsNull(W.wp.audioDecoder) \/ W.wp.encodedAudioQueue <= LowWater)
      THEN [W EXCEPT !.dmxs[id] = DMX_resumeExtraction(@)]
    ELSE W

\* pumpWebCodecsDecoder: submit chunks while the decoder queue is below
\* MaxDecodeQueue and the ring holds fewer than capacity - 2 frames, update
\* the back-pressure, flush once at the end of the stream.
WP_pumpWebCodecsDecoder(W, endOfStream) ==
  IF IsNull(W.wp.videoDecoder) THEN W
  ELSE
    LET id == Val(W.wp.videoDecoder)
        maxFramesBuffered == W.wp.frameQueue.capacity - FramesHeadroom
        n == IF RB_length(W.wp.frameQueue) < maxFramesBuffered
               THEN Min(W.wp.encodedQueue, Max(0, MaxDecodeQueue - W.vdecs[id].queued))
               ELSE 0
        W1 == [W EXCEPT !.wp.encodedQueue = @ - n, !.vdecs[id] = DEC_decode(@, n)]
        W2 == WP_updateDemuxerBackpressure(W1) IN
    IF endOfStream /\ W2.wp.encodedQueue = 0 /\ ~W2.wp.decodeFlushPromise
      THEN [W2 EXCEPT !.wp.decodeFlushPromise = TRUE]
      ELSE W2

\* pumpAudioDecoder; bufferedAhead: more than 2 s of audio are scheduled.
WP_pumpAudioDecoder(W, bufferedAhead, endOfStream) ==
  IF IsNull(W.wp.audioDecoder) THEN W
  ELSE IF W.wp.audioContext /\ bufferedAhead THEN WP_updateDemuxerBackpressure(W)
  ELSE
    LET id == Val(W.wp.audioDecoder)
        n == Min(W.wp.encodedAudioQueue, Max(0, MaxAudioDecodeQueue - W.adecs[id].queued))
        W1 == [W EXCEPT !.wp.encodedAudioQueue = @ - n, !.adecs[id] = DEC_decode(@, n)]
        W2 == WP_updateDemuxerBackpressure(W1) IN
    IF endOfStream /\ W2.wp.encodedAudioQueue = 0 /\ ~W2.wp.audioDecodeFlushPromise
      THEN [W2 EXCEPT !.wp.audioDecodeFlushPromise = TRUE]
      ELSE W2

\* frame.close() on every frame of a sequence.
RECURSIVE CloseAll(_, _)
CloseAll(closed, frames) ==
  IF frames = <<>> THEN closed
  ELSE CloseAll([closed EXCEPT ![Head(frames)] = Min(@ + 1, 2)], Tail(frames))

\* n times frameQueue.shift(): the ring left and the frames taken, oldest first.
RECURSIVE RB_shiftN(_, _)
RB_shiftN(rb, n) ==
  IF n = 0 \/ rb.count = 0 THEN [rb |-> rb, values |-> <<>>]
  ELSE LET one == RB_shift(rb)
           rest == RB_shiftN(one.rb, n - 1) IN
       [rb |-> rest.rb, values |-> <<one.value>> \o rest.values]

WP_cancelWebCodecsRenderLoop(W) == [W EXCEPT !.wp.renderLoopRaf = FALSE]

WP_ensureWebCodecsRenderLoop(W) == [W EXCEPT !.wp.renderLoopRaf = TRUE]

WP_teardownAudioPipeline(W) ==
  LET W1 == IF IsNull(W.wp.audioDecoder) THEN W
            ELSE [W EXCEPT !.adecs[Val(W.wp.audioDecoder)] = DEC_close(@)] IN
  [W1 EXCEPT !.wp.audioDecoder = Null, !.wp.audioContext = FALSE]

WP_teardownWebCodecsPipeline(W) ==
  LET W1 == WP_cancelWebCodecsRenderLoop(W)
      W2 == [W1 EXCEPT !.closes = CloseAll(@, RB_contents(W.wp.frameQueue)),
                       !.wp.frameQueue = RB_clear(@),
                       !.wp.encodedQueue = 0,
                       !.wp.demuxEnded = FALSE,
                       !.wp.decodeFlushPromise = FALSE,
                       !.wp.clockStarted = FALSE,
                       !.wp.paused = FALSE,
                       !.wp.waitingForAudioClock = FALSE,
                       !.wp.encodedAudioQueue = 0,
                       !.wp.audioDemuxEnded = FALSE,
                       !.wp.audioDecodeFlushPromise = FALSE,
                       !.wp.audioSources = 0]
      W3 == IF IsNull(W2.wp.videoDecoder) THEN W2
            ELSE [W2 EXCEPT !.vdecs[Val(W2.wp.videoDecoder)] = DEC_close(@)]
      W4 == IF IsNull(W3.wp.demuxer) THEN W3
            ELSE [W3 EXCEPT !.dmxs[Val(W3.wp.demuxer)] = DMX_stop(@)] IN
  WP_teardownAudioPipeline([W4 EXCEPT !.wp.videoDecoder = Null, !.wp.demuxer = Null])

WP_teardownVideoElementPipeline(W) ==
  [W EXCEPT !.wp.pipeline = IF @ = "video-element" THEN "none" ELSE @,
            !.wp.videoEl = FALSE]

WP_stop(W) ==
  LET W1 == WP_teardownWebCodecsPipeline(WP_teardownVideoElementPipeline(W)) IN
  [W1 EXCEPT !.wp.pipeline = "none"]

WP_play(W, bufferedAhead) ==
  LET W1 == [W EXCEPT !.wp.paused = FALSE] IN
  IF ~WP_isWebCodecsPipeline(W1) THEN W1
  ELSE
    LET W2 == IF IsNull(W1.wp.demuxer) THEN W1
              ELSE [W1 EXCEPT !.dmxs[Val(W1.wp.demuxer)] = DMX_resumeExtraction(@)]
        W3 == WP_ensureWebCodecsRenderLoop(W2)
        W4 == WP_pumpWebCodecsDecoder(W3, W3.wp.demuxEnded) IN
    WP_pumpAudioDecoder(W4, bufferedAhead, W4.wp.audioDemuxEnded)

WP_pause(W) ==
  LET W1 == [W EXCEPT !.wp.paused = TRUE] IN
  IF ~WP_isWebCodecsPipeline(W1) THEN W1
  ELSE
    LET W2 == IF IsNull(W1.wp.demuxer) THEN W1
              ELSE [W1 EXCEPT !.dmxs[Val(W1.wp.demuxer)] = DMX_pauseExtraction(@)] IN
    WP_cancelWebCodecsRenderLoop(W2)

\* wallClockMs: which clock the media clock is started, paused, resumed and
\* read against.
WP_wallClockMs(W) == IF W.wp.audioContext THEN "audioContext.currentTime" ELSE "performance.now"

WP_startClock(W) == [W EXCEPT !.wp.clockStarted = TRUE]

WP_onDecodedVideoFrame(W, frame) ==
  LET W1 == IF ~W.wp.clockStarted /\ ~W.wp.waitingForAudioClock
              THEN WP_startClock(W) ELSE W
      r == WP_enqueueFrame(W1.wp.frameQueue, frame) IN
  [W1 EXCEPT !.wp.frameQueue = r.rb, !.closes = CloseAll(@, r.closed)]

\* The render loop's callback.  waited: more than 1000 ms have passed since
\* the pipeline was started; due: how many frames at the head of the ring have
\* a timestamp at or before the media clock.
WP_renderLoop(W, waited, due, bufferedAhead) ==
  IF W.wp.paused \/ ~W.wp.renderer \/ ~WP_isWebCodecsPipeline(W) THEN W
  ELSE
    LET force == /\ ~W.wp.clockStarted
                 /\ W.wp.waitingForAudioClock
                 /\ waited
                 /\ RB_length(W.wp.frameQueue) > 0
        W1 == IF force THEN WP_startClock([W EXCEPT !.wp.waitingForAudioClock = FALSE])
              ELSE W IN
    IF ~W1.wp.clockStarted
      THEN LET W2 == WP_pumpWebCodecsDecoder(W1, W1.wp.demuxEnded) IN
           WP_pumpAudioDecoder(W2, bufferedAhead, W2.wp.audioDemuxEnded)
      ELSE
        LET r == RB_shiftN(W1.wp.frameQueue, Min(due, RB_length(W1.wp.frameQueue)))
            n == Len(r.values)
            W2 == [W1 EXCEPT !.wp.frameQueue = r.rb, !.closes = CloseAll(@, r.values)]
            W3 == IF n > 0 THEN WP_pumpWebCodecsDecoder(W2, W2.wp.demuxEnded) ELSE W2 IN
        WP_pumpAudioDecoder(W3, bufferedAhead, W3.wp.audioDemuxEnded)

\* onDecodedAudioData.  scheduled: the buffer is not empty and not wholly late,
\* so that a source node is created and started.
WP_onDecodedAudioData(W, scheduled, bufferedAhead) ==
  IF ~W.wp.audioContext THEN W
  ELSE
    LET W1 == IF ~W.wp.clockStarted
                THEN WP_startClock([W EXCEPT !.wp.waitingForAudioClock = FALSE])
                ELSE W IN
    IF ~scheduled THEN W1
    ELSE WP_pumpAudioDecoder([W1 EXCEPT !.wp.audioSources = Min(@ + 1, MaxSources)],
                             bufferedAhead, W1.wp.audioDemuxEnded)

WP_onAudioDecoderError(W) ==
  LET W1 == IF IsNull(W.wp.audioDecoder) THEN W
            ELSE [W EXCEPT !.adecs[Val(W.wp.audioDecoder)] = DEC_close(@)] IN
  [W1 EXCEPT !.wp.waitingForAudioClock = FALSE,
             !.wp.audioDecoder = Null,
             !.wp.encodedAudioQueue = 0]

\* startWebCodecsDemuxerPipeline up to its first await (lines 1510-1543).
WP_startPipelineSync(W, container) ==
  [W EXCEPT !.wp.pipeline = IF container = "mp4" THEN "webcodecs-mp4" ELSE "webcodecs-ts",
            !.wp.paused = FALSE,
            !.wp.clockStarted = FALSE,
            !.wp.waitingForAudioClock = FALSE,
            !.wp.encodedQueue = 0,
            !.wp.demuxEnded = FALSE,
            !.wp.decodeFlushPromise = FALSE,
            !.wp.frameQueue = RB_clear(@),
            !.wp.encodedAudioQueue = 0,
            !.wp.audioDemuxEnded = FALSE,
            !.wp.audioDecodeFlushPromise = FALSE,
            !.wp.audioSources = 0]

\* startVideoElementPipeline / startVideoElementUrlPipeline up to video.play().
WP_startVideoElementSync(W) ==
  [W EXCEPT !.wp.pipeline = "video-element", !.wp.paused = FALSE, !.wp.videoEl = TRUE]

\* loadFile / loadUrl from after "await this.init()" to the next await:
\* the result and the await the task is suspended at.
WP_loadBegin(W, api, container) ==
  LET W1 == [W EXCEPT !.wp.audioContext = TRUE] IN
  IF api = "file"
    THEN [W |-> WP_startPipelineSync(W1, container), pc |-> "open"]
    ELSE [W |-> W1, pc |-> "openSource"]

\* The catch blocks of loadFile and loadUrl.
WP_loadCatch(W, api, container) ==
  LET W1 == WP_teardownWebCodecsPipeline(W) IN
  IF api = "file" \/ container = "mp4"
    THEN [W |-> WP_startVideoElementSync(W1), pc |-> "videoPlay"]
    ELSE [W |-> W1, pc |-> "failed"]

\* startWebCodecsDemuxerPipeline lines 1645-1674: start the extraction and the
\* render loop.  MP4Demuxer.start*Extraction throws on a stopped demuxer.
WP_loadFinish(W, id, api, container, hasAudio) ==
  IF container = "mp4" /\ W.dmxs[id].stopped THEN WP_loadCatch(W, api, container)
  ELSE
    LET W1 == IF hasAudio /\ ~IsNull(W.wp.audioDecoder)
                THEN [W EXCEPT !.dmxs[id] = DMX_startAudioExtraction(@)]
                ELSE [W EXCEPT !.wp.audioDemuxEnded = TRUE]
        W2 == [W1 EXCEPT !.dmxs[id] = DMX_startVideoExtraction(@)] IN
    [W |-> WP_ensureWebCodecsRenderLoop(W2), pc |-> "done"]

\* Lines 1596-1643 after VideoDecoder.isConfigSupported: adopt the demuxer and
\* the decoder, then set the audio decoder up as far as its await.
WP_loadAdopt(W, id, api, container, hasAudio) ==
  LET W1 == [W EXCEPT !.vdecs[id] = DEC_configure(@),
                      !.wp.demuxer = Some(id),
                      !.wp.videoDecoder = Some(id)] IN
  IF hasAudio
    THEN [W |-> [W1 EXCEPT !.wp.audioContext = TRUE, !.adecs[id] = DEC_new],
          pc |-> "audioSupport"]
    ELSE WP_loadFinish(W1, id, api, container, hasAudio)

\* Lines 1628-1643 after AudioDecoder.isConfigSupported.
WP_loadAudio(W, id, api, container, supported) ==
  LET W1 == IF supported
              THEN [W EXCEPT !.adecs[id] = DEC_configure(@),
                             !.wp.audioDecoder = Some(id),
                             !.wp.waitingForAudioClock = TRUE]
              ELSE [WP_teardownAudioPipeline(W) EXCEPT !.wp.waitingForAudioClock = FALSE] IN
  WP_loadFinish(W1, id, api, container, TRUE)

World == [wp |-> wp, dmxs |-> dmxs, vdecs |-> vdecs, adecs |-> adecs, closes |-> closes]

Apply(W) ==
  /\ wp' = W.wp
  /\ dmxs' = W.dmxs
  /\ vdecs' = W.vdecs
  /\ adecs' = W.adecs
  /\ closes' = W.closes

NoLoad == [pc |-> "none", api |-> "file", container |-> "mp4", sent |-> 0]

LoadInputs ==
  {[api |-> "file", container |-> "mp4"],
   [api |-> "file", container |-> "ts"],
   [api |-> "url", container |-> "ts"]}

\* A load task at its next await, or over: a task that is over keeps nothing.
Suspended(l, pc) ==
  IF pc \in {"done", "failed"} THEN [NoLoad EXCEPT !.pc = pc] ELSE [l EXCEPT !.pc = pc]

\* Whether extraction of the session's demuxer is going on.
SessionExtracting(W) ==
  ~IsNull(W.wp.demuxer) /\ DMX_running(W.dmxs[Val(W.wp.demuxer)])

\* The history kept by the load / stop / pause / play handlers.
Since(stopped, userPaused) ==
  [ghost EXCEPT !.stopped = stopped, !.userPaused = userPaused]

PlayerInit ==
  /\ wp = WP_new
  /\ dmxs = [i \in LoadIds |-> DMX_new]
  /\ vdecs = [i \in LoadIds |-> DEC_none]
  /\ adecs = [i \in LoadIds |-> DEC_none]
  /\ closes = [f \in FrameIds |-> 0]
  /\ loads = [i \in LoadIds |-> NoLoad]
  /\ ghost = [stopped |-> FALSE, userPaused |-> FALSE, frames |-> 0]

\* loadFile(file) / loadUrl(url) up to the first await.
LoadCall ==
  \E id \in LoadIds, in \in LoadInputs :
    /\ loads[id].pc = "none"
    /\ \A j \in LoadIds : j < id => loads[j].pc # "none"
    /\ LET W1 == WP_stop(World) IN
       IF ~W1.wp.renderer
         THEN /\ Apply([W1 EXCEPT !.wp.renderer = TRUE])
              /\ loads' = [loads EXCEPT ![id] = [NoLoad EXCEPT !.pc = "init", !.api = in.api,
                                                              !.container = in.container]]
         ELSE LET r == WP_loadBegin(W1, in.api, in.container) IN
              /\ Apply(r.W)
              /\ loads' = [loads EXCEPT ![id] = [NoLoad EXCEPT !.pc = r.pc, !.api = in.api,
                                                              !.container = in.container]]
    /\ ghost' = Since(FALSE, FALSE)
    /\ UNCHANGED notPlayer

\* "await this.init()" returns.
LoadInit ==
  \E id \in LoadIds :
    /\ loads[id].pc = "init"
    /\ LET r == WP_loadBegin(World, loads[id].api, loads[id].container) IN
       /\ Apply(r.W)
       /\ loads' = [loads EXCEPT ![id] = Suspended(@, r.pc)]
    /\ UNCHANGED ghost
    /\ UNCHANGED notPlayer

\* "await openHttpByteSource(url)" returns or throws.
LoadOpenSource ==
  \E id \in LoadIds, ok \in BOOLEAN :
    /\ loads[id].pc = "openSource"
    /\ LET r == IF ok THEN [W |-> WP_startPipelineSync(World, loads[id].container),
                            pc |-> "open"]
                ELSE WP_loadCatch(World, loads[id].api, loads[id].container) IN
       /\ Apply(r.W)
       /\ loads' = [loads EXCEPT ![id] = Suspended(@, r.pc)]
    /\ UNCHANGED ghost
    /\ UNCHANGED notPlayer

\* "await demuxer.open(file)" returns or throws.
LoadOpen ==
  \E id \in LoadIds, ok \in BOOLEAN :
    /\ loads[id].pc = "open"
    /\ LET r == IF ok THEN [W |-> [World EXCEPT !.dmxs[id] = DMX_open(@)], pc |-> "tracks"]
                ELSE WP_loadCatch(World, loads[id].api, loads[id].container) IN
       /\ Apply(r.W)
       /\ loads' = [loads EXCEPT ![id] = Suspended(@, r.pc)]
    /\ UNCHANGED ghost
    /\ UNCHANGED notPlayer

\* The track queries (lines 1548-1574) return, finding no audio track, or
\* getPrimaryVideoTrack throws; then the VideoDecoder is constructed.
LoadTracks ==
  \E id \in LoadIds, ok \in BOOLEAN :
    /\ loads[id].pc = "tracks"
    /\ LET r == IF ok THEN [W |-> [World EXCEPT !.vdecs[id] = DEC_new], pc |-> "videoSupport"]
                ELSE WP_loadCatch(World, loads[id].api, loads[id].container) IN
       /\ Apply(r.W)
       /\ loads' = [loads EXCEPT ![id] = Suspended(@, r.pc)]
    /\ UNCHANGED ghost
    /\ UNCHANGED notPlayer

\* "await VideoDecoder.isConfigSupported(config)" returns.
LoadVideoSupport ==
  \E id \in LoadIds, supported \in BOOLEAN :
    /\ loads[id].pc = "videoSupport"
    /\ LET l == loads[id]
           r == IF supported
                  THEN WP_loadAdopt(World, id, l.api, l.container, FALSE)
                  ELSE WP_loadCatch(World, l.api, l.container) IN
       /\ Apply(r.W)
       /\ loads' = [loads EXCEPT ![id] = Suspended(@, r.pc)]
    /\ UNCHANGED ghost
    /\ UNCHANGED notPlayer

\* "await video.play()" returns in the video-element fallback.
LoadVideoPlay ==
  \E id \in LoadIds :
    /\ loads[id].pc = "videoPlay"
    /\ loads' = [loads EXCEPT ![id] = Suspended(@, "done")]
    /\ UNCHANGED ghost
    /\ UNCHANGED <<wp, dmxs, vdecs, adecs, closes>>
    /\ UNCHANGED notPlayer

Stop ==
  /\ Apply(WP_stop(World))
  /\ ghost' = Since(TRUE, FALSE)
  /\ UNCHANGED loads
  /\ UNCHANGED notPlayer

Play ==
  /\ \E bufferedAhead \in BOOLEAN : Apply(WP_play(World, bufferedAhead))
  /\ ghost' = Since(ghost.stopped, FALSE)
  /\ UNCHANGED loads
  /\ UNCHANGED notPlayer

Pause ==
  /\ Apply(WP_pause(World))
  /\ ghost' = Since(ghost.stopped, ghost.userPaused \/ WP_isWebCodecsPipeline(World))
  /\ UNCHANGED loads
  /\ UNCHANGED notPlayer

\* The chunk and end-of-track callbacks given to the demuxer (lines 1645-1671).
WP_onVideoChunk(W) ==
  WP_pumpWebCodecsDecoder([W EXCEPT !.wp.encodedQueue = @ + 1], FALSE)

WP_onAudioChunk(W, bufferedAhead) ==
  WP_pumpAudioDecoder([W EXCEPT !.wp.encodedAudioQueue = @ + 1], bufferedAhead, FALSE)

WP_onVideoEnd(W) ==
  WP_pumpWebCodecsDecoder([W EXCEPT !.wp.demuxEnded = TRUE], TRUE)

WP_onAudioEnd(W, bufferedAhead) ==
  WP_pumpAudioDecoder([W EXCEPT !.wp.audioDemuxEnded = TRUE], bufferedAhead, TRUE)

\* The demuxer of load id delivers a video chunk.
VideoChunk ==
  \E id \in LoadIds :
    /\ DMX_canDeliver(dmxs[id]) /\ dmxs[id].video
    /\ loads[id].sent < MaxChunks
    /\ Apply(WP_onVideoChunk([World EXCEPT !.dmxs[id] = DMX_deliver(@)]))
    /\ loads' = [loads EXCEPT ![id].sent = @ + 1]
    /\ UNCHANGED ghost
    /\ UNCHANGED notPlayer

\* The demuxer of load id reaches the end of its video track.
VideoEnd ==
  \E id \in LoadIds :
    /\ DMX_running(dmxs[id]) /\ dmxs[id].video
    /\ Apply(WP_onVideoEnd([World EXCEPT !.dmxs[id].video = FALSE]))
    /\ UNCHANGED <<loads, ghost>>
    /\ UNCHANGED notPlayer

\* The VideoDecoder of load id outputs a frame (line 1577).
VideoDecoderOutput ==
  \E id \in LoadIds :
    /\ vdecs[id].state = "configured" /\ vdecs[id].queued > 0
    /\ ghost.frames < MaxFrames
    /\ Apply(WP_onDecodedVideoFrame([World EXCEPT !.vdecs[id].queued = @ - 1],
                                    ghost.frames + 1))
    /\ ghost' = [ghost EXCEPT !.frames = @ + 1]
    /\ UNCHANGED loads
    /\ UNCHANGED notPlayer

\* A requestAnimationFrame callback of the render loop.
RenderLoop ==
  /\ wp.renderLoopRaf
  /\ \E waited \in BOOLEAN, due \in 0..RB_length(wp.frameQueue), bufferedAhead \in BOOLEAN :
       Apply(WP_renderLoop(World, waited, due, bufferedAhead))
  /\ UNCHANGED <<loads, ghost>>
  /\ UNCHANGED notPlayer

(***************************************************************************)
(* SpecSession: one established WebCodecs session and its encoded queues.  *)
(* How far the decoders have got is read when a handler runs: the          *)
(* decodeQueueSize each pump sees is an input; a decoder whose queue is    *)
(* full stands for every reason a pump submits nothing, audio buffered     *)
(* ahead included.  No frame is delivered here, so the ring stays empty.   *)
(***************************************************************************)
\* The session a successful loadFile of an MP4 file leaves behind.
Session(hasAudio) ==
  LET W0 == [wp |-> [WP_new EXCEPT !.renderer = TRUE],
             dmxs |-> [i \in LoadIds |-> DMX_new],
             vdecs |-> [i \in LoadIds |-> DEC_none],
             adecs |-> [i \in LoadIds |-> DEC_none],
             closes |-> [f \in FrameIds |-> 0]]
      begun == WP_loadBegin(WP_stop(W0), "file", "mp4").W
      opened == [begun EXCEPT !.dmxs[1] = DMX_open(@), !.vdecs[1] = DEC_new]
      adopted == WP_loadAdopt(opened, 1, "file", "mp4", hasAudio).W IN
  IF hasAudio THEN WP_loadAudio(adopted, 1, "file", "mp4", TRUE).W ELSE adopted

SessionInit ==
  /\ \E hasAudio \in BOOLEAN :
       LET W == Session(hasAudio) IN
       /\ wp = W.wp
       /\ dmxs = W.dmxs
       /\ vdecs = W.vdecs
       /\ adecs = W.adecs
       /\ closes = W.closes
  /\ loads = [i \in LoadIds |-> IF i = 1 THEN [NoLoad EXCEPT !.pc = "done"] ELSE NoLoad]
  /\ ghost = [stopped |-> FALSE, userPaused |-> FALSE, frames |-> 0]

DecodeQueueSizes == {0, MaxDecodeQueue}
AudioDecodeQueueSizes == {0, MaxAudioDecodeQueue}

\* The objects as a handler finds them: the decoders report the queue sizes
\* dq and adq.
Observed(dq, adq) ==
  [World EXCEPT !.vdecs = [i \in LoadIds |->
                             IF vdecs[i].state = "configured"
                               THEN [vdecs[i] EXCEPT !.queued = dq] ELSE vdecs[i]],
                !.adecs = [i \in LoadIds |->
                             IF adecs[i].state = "configured"
                               THEN [adecs[i] EXCEPT !.queued = adq] ELSE adecs[i]]]

\* The handler's effect on the player and the demuxers.  By the next handler
\* the decoders have taken what was submitted and the audio sources scheduled
\* have ended.
SessionApply(W) ==
  /\ wp' = [W.wp EXCEPT !.audioSources = 0]
  /\ dmxs' = W.dmxs
  /\ vdecs' = [i \in LoadIds |-> [W.vdecs[i] EXCEPT !.queued = 0]]
  /\ adecs' = [i \in LoadIds |-> [W.adecs[i] EXCEPT !.queued = 0]]
  /\ UNCHANGED <<closes, loads, ghost>>
  /\ UNCHANGED notPlayer

SessionVideoChunk ==
  \E dq \in DecodeQueueSizes :
    /\ DMX_canDeliver(dmxs[1]) /\ dmxs[1].video
    /\ wp.encodedQueue < MaxQueue
    /\ SessionApply(WP_onVideoChunk([Observed(dq, 0) EXCEPT !.dmxs[1] = DMX_deliver(@)]))

SessionAudioChunk ==
  \E adq \in AudioDecodeQueueSizes :
    /\ DMX_canDeliver(dmxs[1]) /\ dmxs[1].audio
    /\ wp.encodedAudioQueue < MaxQueue
    /\ SessionApply(WP_onAudioChunk([Observed(0, adq) EXCEPT !.dmxs[1] = DMX_deliver(@)],
                                    FALSE))

\* The AudioDecoder outputs decoded audio (line 1617).
SessionAudioData ==
  \E scheduled \in BOOLEAN, bufferedAhead \in BOOLEAN :
    /\ adecs[1].state = "configured"
    /\ SessionApply(WP_onDecodedAudioData(World, scheduled, bufferedAhead))

\* The AudioDecoder reports an error (line 1618) and is closed.
SessionAudioError ==
  /\ adecs[1].state = "configured"
  /\ SessionApply(WP_onAudioDecoderError([World EXCEPT !.adecs[1] = DEC_close(@)]))

\* A requestAnimationFrame callback of the render loop.
SessionRender ==
  \E dq \in DecodeQueueSizes, adq \in AudioDecodeQueueSizes :
    /\ wp.renderLoopRaf
    /\ SessionApply(WP_renderLoop(Observed(dq, adq), TRUE, 0, FALSE))

SessionPlay ==
  \E dq \in DecodeQueueSizes, adq \in AudioDecodeQueueSizes :
    /\ WP_isWebCodecsPipeline(World)
    /\ SessionApply(WP_play(Observed(dq, adq), FALSE))

SessionPause ==
  /\ WP_isWebCodecsPipeline(World)
  /\ SessionApply(WP_pause(World))

NextSession ==
  \/ SessionVideoChunk
  \/ SessionAudioChunk
  \/ SessionAudioData
  \/ SessionAudioError
  \/ SessionRender
  \/ SessionPlay
  \/ SessionPause

(***************************************************************************)
(* SpecPlayback: the start of one WebCodecs session, frame by frame.  The  *)
(* demuxer delivers up to MaxSent video chunks, the VideoDecoder outputs   *)
(* a frame for every chunk it was given, the render loop ticks, the        *)
(* AudioDecoder outputs data or fails.                                     *)
(***************************************************************************)
\* The session startWebCodecsDemuxerPipeline leaves behind for a file without
\* an audio track ("none") or with one, whose AudioDecoder configuration is
\* "supported" or "unsupported".
AudioTracks == {"none", "supported", "unsupported"}

SessionWith(audio) ==
  LET W0 == [wp |-> [WP_new EXCEPT !.renderer = TRUE],
             dmxs |-> [i \in LoadIds |-> DMX_new],
             vdecs |-> [i \in LoadIds |-> DEC_none],
             adecs |-> [i \in LoadIds |-> DEC_none],
             closes |-> [f \in 1..MaxSent |-> 0]]
      begun == WP_loadBegin(WP_stop(W0), "file", "mp4").W
      opened == [begun EXCEPT !.dmxs[1] = DMX_open(@), !.vdecs[1] = DEC_new]
      adopted == WP_loadAdopt(opened, 1, "file", "mp4", audio # "none").W IN
  IF audio = "none" THEN adopted
  ELSE WP_loadAudio(adopted, 1, "file", "mp4", audio = "supported").W

PlaybackInit ==
  /\ \E audio \in AudioTracks :
       LET W == SessionWith(audio) IN
       /\ wp = W.wp
       /\ dmxs = W.dmxs
       /\ vdecs = W.vdecs
       /\ adecs = W.adecs
       /\ closes = W.closes
  /\ loads = [i \in LoadIds |-> IF i = 1 THEN [NoLoad EXCEPT !.pc = "done"] ELSE NoLoad]
  /\ ghost = [stopped |-> FALSE, userPaused |-> FALSE, frames |-> 0]

PbVideoChunk ==
  /\ DMX_canDeliver(dmxs[1]) /\ dmxs[1].video
  /\ loads[1].sent < MaxSent
  /\ Apply(WP_onVideoChunk([World EXCEPT !.dmxs[1] = DMX_deliver(@)]))
  /\ loads' = [loads EXCEPT ![1].sent = @ + 1]
  /\ UNCHANGED ghost
  /\ UNCHANGED notPlayer

\* The VideoDecoder outputs the next frame (line 1577).
PbVideoOutput ==
  /\ vdecs[1].state = "configured" /\ vdecs[1].queued > 0
  /\ Apply(WP_onDecodedVideoFrame([World EXCEPT !.vdecs[1].queued = @ - 1],
                                  ghost.frames + 1))
  /\ ghost' = [ghost EXCEPT !.frames = @ + 1]
  /\ UNCHANGED loads
  /\ UNCHANGED notPlayer

PbRender ==
  /\ wp.renderLoopRaf
  /\ \E waited \in BOOLEAN, due \in 0..RB_length(wp.frameQueue) :
       Apply(WP_renderLoop(World, waited, due, FALSE))
  /\ UNCHANGED <<loads, ghost>>
  /\ UNCHANGED notPlayer

\* The AudioDecoder outputs decoded audio (line 1617).
PbAudioData ==
  /\ adecs[1].state = "configured"
  /\ \E scheduled \in BOOLEAN : Apply(WP_onDecodedAudioData(World, scheduled, FALSE))
  /\ UNCHANGED <<loads, ghost>>
  /\ UNCHANGED notPlayer

\* The AudioDecoder reports an error (line 1618) and is closed.
PbAudioError ==
  /\ adecs[1].state = "configured"
  /\ Apply(WP_onAudioDecoderError([World EXCEPT !.adecs[1] = DEC_close(@)]))
  /\ UNCHANGED <<loads, ghost>>
  /\ UNCHANGED notPlayer

PbPlay ==
  /\ WP_isWebCodecsPipeline(World)
  /\ Apply(WP_play(World, FALSE))
  /\ UNCHANGED <<loads, ghost>>
  /\ UNCHANGED notPlayer

PbPause ==
  /\ WP_isWebCodecsPipeline(World)
  /\ Apply(WP_pause(World))
  /\ UNCHANGED <<loads, ghost>>
  /\ UNCHANGED notPlayer

NextPlayback ==
  \/ PbVideoChunk
  \/ PbVideoOutput
  \/ PbRender
  \/ PbAudioData
  \/ PbAudioError
  \/ PbPlay
  \/ PbPause

(***************************************************************************)
(* SpecBp: one WebCodecs session with an audio track and the user idle,    *)
(* up to the high-water mark of the encoded audio queue.  The demuxer has  *)
(* delivered MaxBpSent video chunks when the audio of the file runs ahead; *)
(* the AudioDecoder outputs one block for every chunk it was given.        *)
(***************************************************************************)
BpVideoChunk ==
  /\ DMX_canDeliver(dmxs[1]) /\ dmxs[1].video
  /\ loads[1].sent < MaxBpSent
  /\ Apply(WP_onVideoChunk([World EXCEPT !.dmxs[1] = DMX_deliver(@)]))
  /\ loads' = [loads EXCEPT ![1].sent = @ + 1]
  /\ UNCHANGED ghost
  /\ UNCHANGED notPlayer

BpAudioChunk ==
  /\ DMX_canDeliver(dmxs[1]) /\ dmxs[1].audio
  /\ wp.encodedAudioQueue < MaxQueue
  /\ \E bufferedAhead \in BOOLEAN :
       Apply(WP_onAudioChunk([World EXCEPT !.dmxs[1] = DMX_deliver(@)], bufferedAhead))
  /\ UNCHANGED <<loads, ghost>>
  /\ UNCHANGED notPlayer

\* The AudioDecoder outputs the block of the next chunk (line 1617).
BpAudioData ==
  /\ adecs[1].state = "configured" /\ adecs[1].queued > 0
  /\ \E scheduled \in BOOLEAN, bufferedAhead \in BOOLEAN :
       Apply(WP_onDecodedAudioData([World EXCEPT !.adecs[1].queued = @ - 1],
                                   scheduled, bufferedAhead))
  /\ UNCHANGED <<loads, ghost>>
  /\ UNCHANGED notPlayer

BpRender ==
  /\ wp.renderLoopRaf
  /\ \E waited \in BOOLEAN, due \in 0..RB_length(wp.frameQueue), bufferedAhead \in BOOLEAN :
       Apply(WP_renderLoop(World, waited, due, bufferedAhead))
  /\ UNCHANGED <<loads, ghost>>
  /\ UNCHANGED notPlayer

NextBp ==
  \/ BpVideoChunk
  \/ PbVideoOutput
  \/ BpAudioChunk
  \/ BpAudioData
  \/ PbAudioError
  \/ BpRender

(***************************************************************************)
(* SpecCtl: one MKVDemuxer or TSDemuxer instance under open, start, pause, *)
(* resume and stop, with the extract loops it has started.  A loop is an   *)
(* async function: between two awaits it runs without interruption, and at *)
(* an await any other call may come in.  Loop k is the loop started for    *)
(* the k-th open; callbacks are named by the open they were installed for. *)
(***************************************************************************)
CtlKinds == {"mkv", "ts"}
Opens == 1..MaxOpens

\* pc: "none" (not started) | "top" (resumes at the while condition) |
\* "parked" (in waitIfPaused, on a resume waiter) | "woken" (resumes in
\* waitIfPaused) | "read" (on a byte-source read) | "done".
\* pos is the number of reads done; stale: stop() was called since the loop
\* started; aborted: the byte source it reads was aborted.
CTL_noLoop == [pc |-> "none", pos |-> 0, stale |-> FALSE, aborted |-> FALSE]

\* The field initialisers of the class; abortable: the ByteSource the caller
\* passes has the optional abort method.
CTL_new(kind, abortable) ==
  [kind |-> kind, abortable |-> abortable,
   file |-> 0, stopped |-> FALSE, paused |-> FALSE, extracting |-> FALSE,
   startScheduled |-> FALSE, extractPromise |-> FALSE,
   onChunk |-> 0, onEnd |-> 0,
   microtasks |-> 0, opens |-> 0,
   loops |-> [k \in Opens |-> CTL_noLoop],
   staleChunk |-> FALSE, staleEnd |-> FALSE, chunks |-> 0, ends |-> 0,
   onSubtitleEnd |-> 0,                      \* MKV: the open whose session installed it
   endsOf |-> [k \in Opens |-> 0],           \* calls of the end callback installed for open k
   subtitleEndsOf |-> [k \in Opens |-> 0],
   chunkAfterEnd |-> FALSE]                  \* a chunk went to a callback whose track had ended

CTL_live(l) == l.pc \notin {"none", "done"}

\* wakeAllResumeWaiters: every parked loop's promise is resolved.
CTL_wakeAllResumeWaiters(c) ==
  [c EXCEPT !.loops = [k \in Opens |->
                         IF c.loops[k].pc = "parked"
                           THEN [c.loops[k] EXCEPT !.pc = "woken"] ELSE c.loops[k]]]

\* stop(): the flags, the waiters, the optional abort of the byte source, the
\* callbacks, the loop's promise.
CTL_stop(c) ==
  LET woken == CTL_wakeAllResumeWaiters([c EXCEPT !.stopped = TRUE,
                                                  !.extracting = FALSE,
                                                  !.paused = FALSE]) IN
  [woken EXCEPT
     !.loops = [k \in Opens |->
                  IF CTL_live(woken.loops[k])
                    THEN [woken.loops[k] EXCEPT
                            !.stale = TRUE,
                            !.aborted = @ \/ (c.abortable /\ c.file = k)]
                    ELSE woken.loops[k]],
     !.file = 0, !.onChunk = 0, !.onEnd = 0, !.onSubtitleEnd = 0,
     !.startScheduled = FALSE, !.extractPromise = FALSE]

\* open(file): stop(), then stopped = false and the new file.
CTL_open(c) ==
  [CTL_stop(c) EXCEPT !.stopped = FALSE, !.file = c.opens + 1, !.opens = c.opens + 1]

\* scheduleExtractLoopStart.
CTL_scheduleExtractLoopStart(c) ==
  IF c.extractPromise \/ c.startScheduled THEN c
  ELSE [c EXCEPT !.startScheduled = TRUE, !.microtasks = @ + 1]

\* startVideoExtraction / startAudioExtraction with the callbacks of the
\* session that opened the file.
CTL_startExtraction(c) ==
  CTL_scheduleExtractLoopStart([c EXCEPT !.onChunk = c.file, !.onEnd = c.file,
                                         !.extracting = TRUE])

\* MKV startSubtitleExtraction for a text track (lines 500-533) with the
\* callbacks of the session that opened the file.
CTL_startSubtitleExtraction(c) ==
  CTL_scheduleExtractLoopStart([c EXCEPT !.onSubtitleEnd = c.file, !.extracting = TRUE])

\* Loop k calls the chunk callback, if one is installed.
CTL_deliverChunk(c, k) ==
  IF c.onChunk = 0 THEN c
  ELSE [c EXCEPT !.chunks = IF @ < MaxDelivered THEN @ + 1 ELSE @,
                 !.staleChunk = @ \/ c.loops[k].stale,
                 !.chunkAfterEnd = @ \/ c.endsOf[c.onChunk] > 0]

\* After the while loop: the look-ahead chunk, then the end callbacks.
CTL_finish(c, k) ==
  LET flushed == IF c.loops[k].pos > 0 THEN CTL_deliverChunk(c, k) ELSE c
      ended == IF flushed.onEnd = 0 THEN flushed
               ELSE [flushed EXCEPT !.ends = IF @ < MaxDelivered THEN @ + 1 ELSE @,
                                    !.staleEnd = @ \/ c.loops[k].stale,
                                    !.endsOf[flushed.onEnd] = IF @ < MaxDelivered THEN @ + 1 ELSE @]
      subtitleEnded == IF ended.onSubtitleEnd = 0 THEN ended
                       ELSE [ended EXCEPT !.subtitleEndsOf[ended.onSubtitleEnd] =
                                            IF @ < MaxDelivered THEN @ + 1 ELSE @] IN
  [subtitleEnded EXCEPT !.loops[k].pc = "done"]

\* waitIfPaused as entered or resumed by loop k, and the read that follows.
CTL_waitIfPaused(c, k) ==
  IF c.paused /\ ~c.stopped THEN [c EXCEPT !.loops[k].pc = "parked"]
  ELSE [c EXCEPT !.loops[k].pc = "read"]

\* The while condition of runExtractLoop, then `await this.waitIfPaused()`:
\* the await gives the turn away even when extraction is not paused.
CTL_loopTop(c, k) ==
  IF c.loops[k].pos < MaxReads /\ ~c.stopped
    THEN IF c.paused /\ ~c.stopped THEN [c EXCEPT !.loops[k].pc = "parked"]
         ELSE [c EXCEPT !.loops[k].pc = "woken"]
    ELSE CTL_finish(c, k)

\* runExtractLoop up to its first await.
CTL_runExtractLoop(c) ==
  LET k == c.file
      started == [c EXCEPT !.loops[k] = [CTL_noLoop EXCEPT !.pc = "top"]] IN
  IF c.kind = "ts" THEN started ELSE CTL_loopTop(started, k)

\* The queued microtask of scheduleExtractLoopStart.
CTL_microtask(c) ==
  LET run == [c EXCEPT !.startScheduled = FALSE, !.microtasks = @ - 1] IN
  IF run.extractPromise \/ run.stopped \/ ~run.extracting THEN run
  ELSE CTL_runExtractLoop([run EXCEPT !.extractPromise = TRUE])

\* The read of loop k returns: the data is parsed and its chunk handed over.
\* MKV parseCluster calls handleBlock at once; the TS packet loop looks at
\* stopped and paused first.  yield: the step count calls for yieldToMain.
CTL_readReturns(c, k, yield) ==
  LET got == [c EXCEPT !.loops[k].pos = @ + 1]
      handled == IF c.kind = "ts" /\ (c.stopped \/ c.paused) THEN got
                 ELSE CTL_deliverChunk(got, k) IN
  IF yield THEN [handled EXCEPT !.loops[k].pc = "top"] ELSE CTL_loopTop(handled, k)

CtlInit == \E kind \in CtlKinds, abortable \in BOOLEAN : ctl = CTL_new(kind, abortable)
CtlIdle == ctl = CTL_new("mkv", FALSE)

CtlOpen ==
  /\ ctl.opens < MaxOpens
  /\ ctl' = CTL_open(ctl)
  /\ UNCHANGED notCtl

\* The caller starts extraction on the file it opened.
CtlStart ==
  /\ ctl.file # 0
  /\ ctl' = CTL_startExtraction(ctl)
  /\ UNCHANGED notCtl

\* The caller selects a text subtitle track of the MKV file it opened.
CtlStartSubtitle ==
  /\ ctl.kind = "mkv"
  /\ ctl.file # 0
  /\ ctl.onSubtitleEnd # ctl.file
  /\ ctl' = CTL_startSubtitleExtraction(ctl)
  /\ UNCHANGED notCtl

CtlMicrotask ==
  /\ ctl.microtasks > 0
  /\ ctl' = CTL_microtask(ctl)
  /\ UNCHANGED notCtl

CtlStop ==
  /\ ~ctl.stopped
  /\ ctl' = CTL_stop(ctl)
  /\ UNCHANGED notCtl

CtlPause ==
  /\ ~(ctl.stopped \/ ~ctl.extracting)
  /\ ~ctl.paused
  /\ ctl' = [ctl EXCEPT !.paused = TRUE]
  /\ UNCHANGED notCtl

CtlResume ==
  /\ ~(ctl.stopped \/ ~ctl.extracting)
  /\ ctl.paused
  /\ ctl' = CTL_wakeAllResumeWaiters([ctl EXCEPT !.paused = FALSE])
  /\ UNCHANGED notCtl

\* A loop resumes after an await that is no read.
CtlWake ==
  \E k \in Opens :
    /\ ctl.loops[k].pc \in {"top", "woken"}
    /\ ctl' = IF ctl.loops[k].pc = "top" THEN CTL_loopTop(ctl, k)
              ELSE CTL_waitIfPaused(ctl, k)
    /\ UNCHANGED notCtl

\* A read of loop k settles: rejected if the source was aborted (the loop
\* ends with the exception), resolved otherwise.
CtlRead ==
  \E k \in Opens, yield \in BOOLEAN :
    /\ ctl.loops[k].pc = "read"
    /\ ctl' = IF ctl.loops[k].aborted THEN [ctl EXCEPT !.loops[k].pc = "done"]
              ELSE CTL_readReturns(ctl, k, yield)
    /\ UNCHANGED notCtl

NextCtl ==
  \/ CtlOpen
  \/ CtlStart
  \/ CtlStartSubtitle
  \/ CtlMicrotask
  \/ CtlStop
  \/ CtlPause
  \/ CtlResume
  \/ CtlWake
  \/ CtlRead

(***************************************************************************)
(* SpecLook: the video path of one MKVDemuxer / TSDemuxer extract loop     *)
(* with its one-element look-ahead.  A video access unit is accepted when  *)
(* the loop makes it the look-ahead (`current`); the chunk callback gets   *)
(* the previous look-ahead with its duration.  Every chunk handed to the   *)
(* callback is kept, in order, as [timestamp, duration].                   *)
(***************************************************************************)
LookKinds == {"mkv", "ts"}

LOOK_new(kind, timecodeScaleNs, onVideoChunk) ==
  [kind |-> kind,
   timecodeScaleNs |-> timecodeScaleNs,  \* MKV
   clusterTimecode |-> 0,                \* MKV runExtractLoop local
   onVideoChunk |-> onVideoChunk,        \* video extraction was started
   pendingVideo |-> Null,                \* the look-ahead: its timestampUs
   accepted |-> <<>>,                    \* timestamps of the units accepted
   chunks |-> <<>>,                      \* chunks the callback received
   read |-> 0,                           \* blocks / PES read so far
   finished |-> FALSE,                   \* the loop returned
   videoEnd |-> Null]                    \* chunks delivered when onVideoEnd ran

LOOK_durationUs_noClamp(currentUs, pendingUs) == currentUs - pendingUs

\* duration of the look-ahead when the next unit arrives: handleBlock lines
\* 1390-1391, ts-demuxer.ts lines 894-895.
LOOK_durationUs(currentUs, pendingUs) ==
  LET dur == currentUs - pendingUs IN
  IF dur > 0 THEN dur ELSE 0

\* A video unit with timestamp timestampUs reaches the look-ahead code
\* (handleBlock lines 1387-1402, ts-demuxer.ts lines 888-906).
LOOK_video(v, timestampUs) ==
  IF ~v.onVideoChunk THEN v
  ELSE LET delivered == IF IsNull(v.pendingVideo) THEN v.chunks
                      ELSE Append(v.chunks,
                                  [timestamp |-> Val(v.pendingVideo),
                                   duration |-> LOOK_durationUs(timestampUs,
                                                                Val(v.pendingVideo))]) IN
       [v EXCEPT !.chunks = delivered,
                 !.pendingVideo = Some(timestampUs),
                 !.accepted = Append(@, timestampUs)]

LOOK_endOfStream_noFlush(v) ==
  [v EXCEPT !.finished = TRUE,
            !.videoEnd = IF v.onVideoChunk THEN Some(Len(v.chunks)) ELSE Null]

\* After the loop: the look-ahead with duration 0, then onVideoEnd
\* (part_000 lines 954-966, ts-demuxer.ts lines 1068-1080).
LOOK_endOfStream(v) ==
  LET flushed == IF ~IsNull(v.pendingVideo) /\ v.onVideoChunk
                   THEN Append(v.chunks, [timestamp |-> Val(v.pendingVideo),
                                          duration |-> 0])
                   ELSE v.chunks IN
  [v EXCEPT !.chunks = flushed,
            !.finished = TRUE,
            !.videoEnd = IF v.onVideoChunk THEN Some(Len(flushed)) ELSE Null]

LookInit ==
  \E kind \in LookKinds, scale \in TimecodeScales, started \in BOOLEAN :
    look = LOOK_new(kind, IF kind = "mkv" THEN scale ELSE 1000000, started)

LookIdle == look = LOOK_new("mkv", 1000000, FALSE)

\* MKVDemuxer.parseCluster reads the cluster's Timecode element.
LookCluster ==
  /\ look.kind = "mkv"
  /\ ~look.finished
  /\ \E tc \in 0..MaxTime : look' = [look EXCEPT !.clusterTimecode = tc]
  /\ look'.clusterTimecode # look.clusterTimecode
  /\ UNCHANGED notLook

\* MKVDemuxer.handleBlock on a block: of the video track or of another one,
\* laced or not, with or without payload.
LookBlock ==
  /\ look.kind = "mkv"
  /\ ~look.finished
  /\ look.read < MaxBlocks
  /\ \E isVideo \in BOOLEAN, relTimecode \in RelTimecodes, laced \in BOOLEAN,
        hasPayload \in BOOLEAN :
       LET timestampUs == MKV_timestampUs(look.clusterTimecode, relTimecode,
                                          look.timecodeScaleNs)
           got == [look EXCEPT !.read = @ + 1] IN
       look' = IF (laced /\ isVideo) \/ ~hasPayload \/ ~isVideo THEN got
               ELSE LOOK_video(got, timestampUs)
  /\ UNCHANGED notLook

\* TSDemuxer.runExtractLoop on a completed PES of the video PID, in the
\* packet loop or in the flush of the pending PES after it.
LookPes ==
  /\ look.kind = "ts"
  /\ ~look.finished
  /\ look.read < MaxBlocks
  /\ \E pts90k \in Pts90kValues, hasPts \in BOOLEAN :
       LET got == [look EXCEPT !.read = @ + 1] IN
       look' = IF hasPts THEN LOOK_video(got, pts90kToUs(pts90k)) ELSE got
  /\ UNCHANGED notLook

\* The source is exhausted and the loop runs to its end.
LookEndOfStream ==
  /\ ~look.finished
  /\ look' = LOOK_endOfStream(look)
  /\ UNCHANGED notLook

NextLook ==
  \/ LookCluster
  \/ LookBlock
  \/ LookPes
  \/ LookEndOfStream

(***************************************************************************)
(* SpecAudio: WebPlayer.onDecodedAudioData, the scheduling of decoded      *)
(* audio on the AudioContext's timeline.                                   *)
(*                                                                         *)
(* Numbers: a value in seconds is held as its count of microseconds, a     *)
(* value in milliseconds as its count of milliseconds, a value in          *)
(* microseconds as such.  All times lie on a 10 ms grid, so that every     *)
(* conversion the code makes is exact.                                     *)
(***************************************************************************)
StartDelaySec == 50000

\* x * 1000 for x in seconds: the value in milliseconds.
MsFromSec(sec) == sec \div 1000
\* x / 1000 for x in milliseconds: the value in seconds.
SecFromMs(ms) == ms * 1000
\* x / 1_000_000 for x in microseconds: the value in seconds.
SecFromUs(us) == us

AudioTimestamps == {k * 10000 : k \in 0..MaxAudioTs}
\* audioBuffer.duration; 0 is the buffer without frames.
AudioDurations == {0, 10000, 20000}
ContextTimes == {0, 1000000}

NoBlock ==
  [outcome |-> "none", timestamp |-> 0, duration |-> 0, first |-> FALSE,
   now |-> 0, prevUntil |-> 0, until |-> 0, startSec |-> 0, startOffsetSec |-> 0,
   playDurSec |-> 0]

\* The fields after startWebCodecsDemuxerPipeline has set the audio path up
\* (lines 1512-1530, 1634-1635) with the AudioContext at time now.
AUD_new(now) ==
  [currentTime |-> now,               \* ctx.currentTime
   start |-> now,                     \* ctx.currentTime at set-up
   clockStarted |-> FALSE,
   waitingForAudioClock |-> TRUE,
   clockBaseTimestampUs |-> 0,
   clockBaseWallClockMs |-> 0,
   clockStart |-> Null,               \* arguments of the last clock.start
   audioScheduledUntilSec |-> now,
   last |-> NoBlock,                  \* the last decoded block and what became of it
   scheduledEndSec |-> 0]             \* the latest end of the sources started so far

\* startClock, lines 1889-1894.
AUD_startClock(a, timestampUs, wallClockMs) ==
  [a EXCEPT !.clockStart = Some([timestampUs |-> timestampUs, wallClockMs |-> wallClockMs]),
            !.clockStarted = TRUE,
            !.clockBaseTimestampUs = timestampUs,
            !.clockBaseWallClockMs = wallClockMs]

AUD_firstBlock_noDelay(a, timestamp) ==
  LET baseTimeSec == a.currentTime
      started == AUD_startClock(a, timestamp, MsFromSec(baseTimeSec)) IN
  [started EXCEPT !.waitingForAudioClock = FALSE,
                  !.audioScheduledUntilSec = IF @ < baseTimeSec THEN baseTimeSec ELSE @]

\* Lines 1965-1971: the clock is not started yet.
AUD_firstBlock(a, timestamp) ==
  LET baseTimeSec == a.currentTime + StartDelaySec
      started == AUD_startClock(a, timestamp, MsFromSec(baseTimeSec)) IN
  [started EXCEPT !.waitingForAudioClock = FALSE,
                  !.audioScheduledUntilSec = IF @ < baseTimeSec THEN baseTimeSec ELSE @]

\* Lines 1976-1978.
AUD_idealStartSec(a, timestamp) ==
  SecFromMs(a.clockBaseWallClockMs) + SecFromUs(timestamp - a.clockBaseTimestampUs)

AUD_offsetSec_fromNow(a, idealStartSec) == Max(0, a.currentTime - idealStartSec)

AUD_offsetSec_fromScheduled(a, idealStartSec) ==
  Max(0, a.audioScheduledUntilSec - idealStartSec)

\* Lines 1980-1981.
AUD_offsetSec(a, idealStartSec) ==
  LET minStartSec == Max(a.currentTime, a.audioScheduledUntilSec) IN
  Max(0, minStartSec - idealStartSec)

AUD_startSec_asap(a, idealStartSec, offsetSec) ==
  Max(a.currentTime, a.audioScheduledUntilSec)

\* Line 1984.
AUD_startSec(a, idealStartSec, offsetSec) == idealStartSec + offsetSec

\* onDecodedAudioData (lines 1956-2010) with an AudioContext and a gain node,
\* for a block with data.timestamp = timestamp whose AudioBuffer lasts
\* duration.
AUD_onDecodedAudioData(a, timestamp, duration) ==
  LET a1 == IF ~a.clockStarted THEN AUD_firstBlock(a, timestamp) ELSE a
      idealStartSec == AUD_idealStartSec(a1, timestamp)
      offsetSec == AUD_offsetSec(a1, idealStartSec)
      startSec == AUD_startSec(a1, idealStartSec, offsetSec)
      playDurSec == duration - offsetSec
      idealEndSec == idealStartSec + duration
      seen == [NoBlock EXCEPT !.timestamp = timestamp, !.duration = duration,
                              !.first = ~a.clockStarted, !.now = a.currentTime,
                              !.prevUntil = a.audioScheduledUntilSec,
                              !.until = a1.audioScheduledUntilSec] IN
  IF duration = 0 THEN [a1 EXCEPT !.last = [seen EXCEPT !.outcome = "empty"]]
  ELSE IF offsetSec >= duration THEN [a1 EXCEPT !.last = [seen EXCEPT !.outcome = "late"]]
  ELSE [a1 EXCEPT
          !.last = [seen EXCEPT
                      !.outcome = "scheduled",
                      !.startSec = startSec,
                      !.startOffsetSec = IF offsetSec > 0 \/ playDurSec < duration
                                           THEN offsetSec ELSE 0,
                      !.playDurSec = IF offsetSec > 0 \/ playDurSec < duration
                                       THEN playDurSec ELSE duration],
          !.audioScheduledUntilSec = IF idealEndSec > @ THEN idealEndSec ELSE @,
          !.scheduledEndSec = Max(@, startSec + playDurSec)]

AudioInit == \E now \in ContextTimes : aud = AUD_new(now)
AudioIdle == aud = AUD_new(0)

\* The audio device plays on.
AudioAdvance ==
  /\ aud.currentTime < aud.start + MaxAdvance * 10000
  /\ aud' = [aud EXCEPT !.currentTime = @ + 10000]
  /\ UNCHANGED notAudio

\* The AudioDecoder outputs a block.
AudioData ==
  /\ \E timestamp \in AudioTimestamps, duration \in AudioDurations :
       aud' = AUD_onDecodedAudioData(aud, timestamp, duration)
  /\ UNCHANGED notAudio

\* The render loop gives up waiting for audio and starts the clock from the
\* first buffered video frame (lines 1727-1737).
AudioForcedStart ==
  /\ ~aud.clockStarted
  /\ aud.waitingForAudioClock
  /\ \E timestamp \in AudioTimestamps :
       aud' = AUD_startClock([aud EXCEPT !.waitingForAudioClock = FALSE],
                             timestamp, MsFromSec(aud.currentTime))
  /\ UNCHANGED notAudio

NextAudio ==
  \/ AudioAdvance
  \/ AudioData
  \/ AudioForcedStart

(***************************************************************************)
(* SpecSub: the text-subtitle path of MKVDemuxer.handleBlock for the       *)
(* selected subtitle track, with the one pending cue.  Every block of the  *)
(* track that is read is kept, in order, and every cue handed to the cue   *)
(* callback with the number of the block it was made from.                 *)
(***************************************************************************)
SubtitleFallbackUs == 5000000

SubTimecodes == 0..MaxTime
\* BlockDuration in ticks; 0: the block has none (a SimpleBlock, or a
\* BlockGroup without the element).
SubBlockDurations == {0, 1}
\* TrackEntry DefaultDuration of the subtitle track in ns; 0: none.
SubDefaultDurationsNs == {0, 2000000}

SUB_new(defaultDurationNs) ==
  [timecodeScaleNs |-> 1000000,
   defaultDurationNs |-> defaultDurationNs,   \* extractSubtitleTrack.defaultDurationNs
   pendingSubtitle |-> Null,                  \* [startUs, block]
   blocks |-> <<>>,                           \* blocks of the track read so far
   cues |-> <<>>,                             \* cues the callback received
   finished |-> FALSE]

\* One cue to the callback, made from block number block.
SUB_onCue(s, startUs, endUs, block) ==
  [s EXCEPT !.cues = Append(@, [startUs |-> startUs, endUs |-> endUs, block |-> block])]

\* flushPendingSubtitle (lines 1407-1424); nextStartUs is Null at the end of
\* the stream.
SUB_flushPendingSubtitle(s, nextStartUs) ==
  IF IsNull(s.pendingSubtitle) THEN s
  ELSE LET pending == Val(s.pendingSubtitle)
           startUs == pending.startUs
           given == IF IsNull(nextStartUs) THEN 0 ELSE Val(nextStartUs)
           fallback == IF s.defaultDurationNs > 0
                         THEN RoundDiv(s.defaultDurationNs, 1000)
                         ELSE SubtitleFallbackUs
           endUs == IF given > startUs THEN given ELSE startUs + fallback
           cleared == [s EXCEPT !.pendingSubtitle = Null] IN
       IF endUs > startUs THEN SUB_onCue(cleared, startUs, endUs, pending.block)
       ELSE cleared

\* handleBlock lines 1351-1385 for a block of the selected text track with
\* the cue callback installed: hasText says that the payload, decoded and
\* trimmed (and for ASS reduced to the dialogue text), is not empty.
SUB_handleBlock(s, timecode, blockDurationTicks, hasText) ==
  LET timestampUs == MKV_timestampUs(0, timecode, s.timecodeScaleNs)
      n == Len(s.blocks) + 1
      read == [s EXCEPT !.blocks = Append(@, [timestampUs |-> timestampUs,
                                              ticks |-> blockDurationTicks,
                                              hasText |-> hasText])]
      durationUs == IF blockDurationTicks > 0
                      THEN RoundDiv(blockDurationTicks * s.timecodeScaleNs, 1000)
                      ELSE IF s.defaultDurationNs > 0
                        THEN RoundDiv(s.defaultDurationNs, 1000)
                        ELSE 0
      flushed == SUB_flushPendingSubtitle(read, Some(timestampUs)) IN
  IF ~hasText THEN read
  ELSE IF durationUs > 0
    THEN SUB_onCue(flushed, timestampUs, timestampUs + durationUs, n)
    ELSE [flushed EXCEPT !.pendingSubtitle = Some([startUs |-> timestampUs, block |-> n])]

SubInit == \E d \in SubDefaultDurationsNs : sub = SUB_new(d)
SubIdle == sub = SUB_new(0)

\* The extract loop reads a block of the selected subtitle track.
SubBlock ==
  /\ ~sub.finished
  /\ Len(sub.blocks) < MaxSubBlocks
  /\ \E timecode \in SubTimecodes, ticks \in SubBlockDurations, hasText \in BOOLEAN :
       sub' = SUB_handleBlock(sub, timecode, ticks, hasText)
  /\ UNCHANGED notSub

\* runExtractLoop reaches the end of the stream (lines 967-968).
SubEndOfStream ==
  /\ ~sub.finished
  /\ sub' = [SUB_flushPendingSubtitle(sub, Null) EXCEPT !.finished = TRUE]
  /\ UNCHANGED notSub

NextSub ==
  \/ SubBlock
  \/ SubEndOfStream

(***************************************************************************)
(* SpecOpen: one call of MP4Demuxer.open or MKVDemuxer.open on a byte      *)
(* source that is read chunk by chunk; any read may fail.  The file is     *)
(* `size` reads long; the read number headerAt completes what open waits   *)
(* for (MP4: the moov box, mp4box calls onReady; MKV: Info and Tracks),    *)
(* and for MKV the read number segmentAt shows the Segment element.        *)
(***************************************************************************)
OpenKinds == {"mp4", "mkv"}
OpenSizes == 1..MaxOpenReads

\* open() up to its first await: the promise open returns is pending and
\* the first read has been issued.
OPEN_open(kind, size, segmentAt, headerAt) ==
  [kind |-> kind, size |-> size, segmentAt |-> segmentAt, headerAt |-> headerAt,
   offset |-> 0,              \* reads that returned
   reading |-> TRUE,          \* a read of the source is in flight
   stopped |-> FALSE,
   segment |-> FALSE,         \* MKV: the Segment element was found
   ready |-> "pending",       \* MP4 readyPromise
   open |-> "pending",        \* the promise open() returned
   failed |-> FALSE]          \* a read failed while open() was pending

\* MP4: open() awaits readyPromise and nothing else (line 119).
OPEN_mp4Settle(o) ==
  IF o.open = "pending" /\ o.ready # "pending" THEN [o EXCEPT !.open = o.ready] ELSE o

\* MP4 runReadLoop (lines 122-138) after a read returned: appendBuffer may
\* make mp4box call onReady or onError; then the while condition, and flush
\* at the end of the file.
OPEN_mp4Read(o, corrupt) ==
  LET got == [o EXCEPT !.offset = @ + 1]
      parsed == IF got.ready # "pending" THEN got
                ELSE IF corrupt THEN [got EXCEPT !.ready = "rejected"]
                ELSE IF got.offset = got.headerAt THEN [got EXCEPT !.ready = "resolved"]
                ELSE got IN
  OPEN_mp4Settle([parsed EXCEPT !.reading = parsed.offset < parsed.size /\ ~parsed.stopped])

\* MP4 runReadLoop: the read rejects; `catch { // ignore }` (lines 135-137).
OPEN_mp4ReadFails(o) == [o EXCEPT !.reading = FALSE, !.failed = o.open = "pending"]

\* MKV parseSegmentAndTracks (lines 606-663) after a read returned.
OPEN_mkvRead(o) ==
  LET got == [o EXCEPT !.offset = @ + 1]
      found == [got EXCEPT !.segment = @ \/ got.offset >= got.segmentAt]
      more == found.offset < found.size /\ ~found.stopped IN
  IF ~found.segment
    THEN IF more THEN found
         ELSE [found EXCEPT !.reading = FALSE, !.open = "rejected"]
    ELSE IF found.offset >= found.headerAt \/ ~more
      THEN [found EXCEPT !.reading = FALSE, !.open = "resolved"]
      ELSE found

\* MKV: the read rejects inside readElementHeader / readBytes; nothing
\* catches it before open's caller.
OPEN_mkvReadFails(o) ==
  [o EXCEPT !.reading = FALSE, !.failed = TRUE, !.open = "rejected"]

OpenInit ==
  \E kind \in OpenKinds, size \in OpenSizes, segmentAt \in 1..(MaxOpenReads + 1),
     headerAt \in 1..(MaxOpenReads + 1) :
    /\ segmentAt <= headerAt
    /\ kind = "mp4" => segmentAt = headerAt
    /\ opn = OPEN_open(kind, size, segmentAt, headerAt)

OpenIdle == opn = OPEN_open("mp4", 1, 1, 1)

\* A read of the byte source returns its bytes.
OpenReadReturns ==
  /\ opn.reading
  /\ \E corrupt \in BOOLEAN :
       opn' = IF opn.kind = "mp4" THEN OPEN_mp4Read(opn, corrupt) ELSE OPEN_mkvRead(opn)
  /\ UNCHANGED notOpen

\* A read of the byte source rejects.
OpenReadFails ==
  /\ opn.reading
  /\ opn' = IF opn.kind = "mp4" THEN OPEN_mp4ReadFails(opn) ELSE OPEN_mkvReadFails(opn)
  /\ UNCHANGED notOpen

\* stop() while the source is still being read; a source with abort() makes
\* the read in flight reject later.
OpenStop ==
  /\ ~opn.stopped
  /\ opn.reading
  /\ opn' = [opn EXCEPT !.stopped = TRUE]
  /\ UNCHANGED notOpen

NextOpen ==
  \/ OpenReadReturns
  \/ OpenReadFails
  \/ OpenStop

(***************************************************************************)
(* SpecHttp: openHttpByteSource and the byte source it returns.  Every     *)
(* call of fetchWithRetry is kept as a request record, every               *)
(* slice().arrayBuffer() / arrayBuffer() of the returned source as a read  *)
(* record.  The network answers a fetch in flight with a response or a     *)
(* rejection; a fetch whose signal is aborted rejects with AbortError and  *)
(* sends nothing.                                                          *)
(***************************************************************************)
RetryDelayMs == 300
DefaultRetryCount == 1

HttpRetryCounts == 0..MaxRetryCount
HttpStatuses == {200, 206, 500}
\* Total of Content-Range / value of Content-Length: Null when the header is
\* missing or has no positive number (`bytes 0-1/*`).
HttpLengths == {Null, Some(2)}

\* res.ok
HTTP_ok(status) == status >= 200 /\ status <= 299

\* fetch(url, init) inside fetchWithRetry (line 50): a request goes out
\* unless the signal is aborted already.
FWR_fetch(r, aborted) ==
  [r EXCEPT !.state = "fetch", !.calls = @ + 1,
            !.sent = IF aborted THEN @ ELSE @ + 1]

\* fetchWithRetry up to its first await (lines 44-50).
FWR_new(kind, read, retryCount, aborted) ==
  FWR_fetch([kind |-> kind, read |-> read, maxRetries |-> Max(0, retryCount),
             state |-> "fetch", attempt |-> 0, calls |-> 0, sent |-> 0,
             waits |-> <<>>, abortedAt |-> IF aborted THEN 0 ELSE -1], aborted)

\* The catch clause with `attempt > maxRetries`: one retry too many.
FWR_rejected_oneMore(r, abortError, aborted) ==
  IF aborted \/ abortError \/ r.attempt > r.maxRetries
    THEN [r EXCEPT !.state = "error"]
    ELSE [r EXCEPT !.state = "sleep",
                   !.waits = Append(@, RetryDelayMs * (2 ^ r.attempt))]

\* The catch clause of fetchWithRetry (lines 51-55): the fetch rejected.
FWR_rejected(r, abortError, aborted) ==
  IF aborted \/ abortError \/ r.attempt >= r.maxRetries
    THEN [r EXCEPT !.state = "error"]
    ELSE [r EXCEPT !.state = "sleep",
                   !.waits = Append(@, RetryDelayMs * (2 ^ r.attempt))]

\* sleepMs is over (lines 55-56, then line 50 again).
FWR_slept(r, aborted) == FWR_fetch([r EXCEPT !.attempt = @ + 1], aborted)

\* The signal of request r: the probe has a controller of its own
\* (line 332) that nothing aborts; reads and the download use the
\* controller of the source.
HTTP_signalAborted(h, r) == r.kind \in {"range", "full"} /\ h.aborted

HTTP_new(retryCount) ==
  [retryCount |-> retryCount,
   phase |-> "probe",          \* openHttpByteSource: probe, download, open, failed
   mode |-> "none",            \* class of the source: range, full
   size |-> Null,              \* size of the source
   probeSize |-> Null,         \* probe.size
   probeStatus |-> 0,          \* status of the answer to the Range probe
   aborted |-> FALSE,          \* controller.signal.aborted of the source
   bufferPromise |-> "none",   \* none, pending, resolved, rejected
   reqs |-> <<FWR_new("probe", 0, retryCount, FALSE)>>,
   reads |-> <<>>]

\* Every read that waits for bufferPromise settles with it.
HTTP_settleBuffer(h, how) ==
  [h EXCEPT !.bufferPromise = how,
            !.reads = [k \in DOMAIN h.reads |->
                         IF h.reads[k].state = "pending"
                           THEN [h.reads[k] EXCEPT !.state = IF how = "resolved" THEN "ok" ELSE "failed"]
                           ELSE h.reads[k]]]

HTTP_settleRead(h, k, how) == [h EXCEPT !.reads[k].state = how]

\* getBuffer without line 289: every call downloads again.
HTTP_getBuffer_noCache(h) ==
  [h EXCEPT !.bufferPromise = "pending",
            !.reqs = Append(@, FWR_new("full", 0, h.retryCount, h.aborted))]

\* HttpFullByteSource.getBuffer (lines 288-310) up to its first await.
HTTP_getBuffer(h) ==
  IF h.bufferPromise # "none" THEN h
  ELSE [h EXCEPT !.bufferPromise = "pending",
                 !.reqs = Append(@, FWR_new("full", 0, h.retryCount, h.aborted))]

\* openHttpByteSource after probeHttp returned (lines 334-346).
HTTP_probed(h, size, acceptRanges, status) ==
  LET p == [h EXCEPT !.size = size, !.probeSize = size, !.probeStatus = status] IN
  IF acceptRanges /\ ~IsNull(size) THEN [p EXCEPT !.phase = "open", !.mode = "range"]
  ELSE IF IsNull(size) THEN HTTP_getBuffer([p EXCEPT !.phase = "download", !.mode = "full"])
  ELSE [p EXCEPT !.phase = "open", !.mode = "full"]

\* The continuation of request i after fetchWithRetry returned a response:
\* probeHttp lines 115-135 and 148-155, fetchRange lines 226-231, getBuffer
\* lines 303-304.
HTTP_response(h, i, status, length) ==
  LET r == h.reqs[i]
      got == [h EXCEPT !.reqs[i].state = "body"]
      done == [h EXCEPT !.reqs[i].state = "done"]
      threw == [h EXCEPT !.reqs[i].state = "done"] IN
  CASE r.kind = "probe" ->
         IF status = 206 THEN HTTP_probed(done, length, TRUE, status)
         ELSE HTTP_probed(done, length, FALSE, status)
    [] r.kind = "get" -> HTTP_probed(done, length, FALSE, h.probeStatus)
    [] r.kind = "range" ->
         IF status # 206 /\ ~(HTTP_ok(status) /\ h.reads[r.read].whole)
           THEN HTTP_settleRead(threw, r.read, "failed")
           ELSE got
    [] r.kind = "full" ->
         IF ~HTTP_ok(status)
           THEN LET f == HTTP_settleBuffer(threw, "rejected") IN
                IF f.phase = "download" THEN [f EXCEPT !.phase = "failed"] ELSE f
           ELSE got

\* The continuation of request i after fetchWithRetry threw: probeHttp
\* lines 136-147 (the Range probe failed: a plain GET is tried), the plain
\* GET, fetchRange and getBuffer let the error through.
HTTP_error(h, i) ==
  LET r == h.reqs[i] IN
  CASE r.kind = "probe" ->
         [h EXCEPT !.reqs = Append(@, FWR_new("get", 0, h.retryCount, FALSE))]
    [] r.kind = "get" -> [h EXCEPT !.phase = "failed"]
    [] r.kind = "range" -> HTTP_settleRead(h, r.read, "failed")
    [] r.kind = "full" ->
         LET f == HTTP_settleBuffer(h, "rejected") IN
         IF f.phase = "download" THEN [f EXCEPT !.phase = "failed"] ELSE f

\* res.arrayBuffer() of request i settled (fetchRange lines 228 and 231,
\* getBuffer lines 304-307, openHttpByteSource lines 344-346).
HTTP_body(h, i, arrived) ==
  LET r == h.reqs[i]
      done == [h EXCEPT !.reqs[i].state = "done"] IN
  IF r.kind = "range"
    THEN HTTP_settleRead(done, r.read, IF arrived THEN "ok" ELSE "failed")
    ELSE LET f == HTTP_settleBuffer(done, IF arrived THEN "resolved" ELSE "rejected") IN
         IF f.phase = "download"
           THEN [f EXCEPT !.phase = IF arrived THEN "open" ELSE "failed",
                          !.size = IF arrived THEN Some(2) ELSE @]
           ELSE IF arrived THEN [f EXCEPT !.size = Some(2)] ELSE f

\* HttpRangeByteSource.fetchRange up to its first await (lines 209-225),
\* as the read number Len(reads) + 1.
HTTP_fetchRange(h, whole) ==
  LET k == Len(h.reads) + 1
      read == [whole |-> whole, afterAbort |-> h.aborted, atAbort |-> FALSE,
               state |-> "pending"] IN
  IF h.aborted
    THEN [h EXCEPT !.reads = Append(@, [read EXCEPT !.state = "failed"])]
    ELSE [h EXCEPT !.reads = Append(@, read),
                   !.reqs = Append(@, FWR_new("range", k, h.retryCount, h.aborted))]

\* HttpFullSlice.arrayBuffer / HttpFullByteSource.arrayBuffer (lines
\* 242-245, 284-286): await getBuffer(); whichever slice is asked for, the
\* bytes come from the one buffer.
HTTP_fullRead(h) ==
  LET g == HTTP_getBuffer(h)
      read == [whole |-> FALSE, afterAbort |-> h.aborted, atAbort |-> FALSE,
               state |-> CASE g.bufferPromise = "resolved" -> "ok"
                           [] g.bufferPromise = "rejected" -> "failed"
                           [] OTHER -> "pending"] IN
  [g EXCEPT !.reads = Append(@, read)]

\* abort() (lines 195-197, 274-276).
HTTP_abort(h) ==
  [h EXCEPT !.aborted = TRUE,
            !.reads = [k \in DOMAIN h.reads |->
                         [h.reads[k] EXCEPT !.atAbort = @ \/ h.reads[k].state = "pending"]],
            !.reqs = [i \in DOMAIN h.reqs |->
                        IF h.reqs[i].kind \in {"range", "full"} /\ h.reqs[i].abortedAt < 0
                          THEN [h.reqs[i] EXCEPT !.abortedAt = h.reqs[i].sent]
                          ELSE h.reqs[i]]]

HttpInit == \E retryCount \in HttpRetryCounts : http = HTTP_new(retryCount)
HttpIdle == http = HTTP_new(DefaultRetryCount)

\* The server answers the fetch of request i.
HttpResponse ==
  \E i \in DOMAIN http.reqs, status \in HttpStatuses, length \in HttpLengths :
    /\ http.reqs[i].state = "fetch"
    /\ ~HTTP_signalAborted(http, http.reqs[i])
    /\ http.reqs[i].kind = "full" => status # 206
    /\ http' = HTTP_response(http, i, status, length)
    /\ UNCHANGED notHttp

\* The fetch of request i rejects: a network error, or AbortError when its
\* signal is aborted.
HttpFetchRejects ==
  \E i \in DOMAIN http.reqs :
    /\ http.reqs[i].state = "fetch"
    /\ LET aborted == HTTP_signalAborted(http, http.reqs[i])
           r == FWR_rejected(http.reqs[i], aborted, aborted)
           h == [http EXCEPT !.reqs[i] = r] IN
       http' = IF r.state = "error" THEN HTTP_error(h, i) ELSE h
    /\ UNCHANGED notHttp

\* The backoff timer of request i fires.
HttpSleepEnds ==
  \E i \in DOMAIN http.reqs :
    /\ http.reqs[i].state = "sleep"
    /\ http' = [http EXCEPT !.reqs[i] =
                  FWR_slept(@, HTTP_signalAborted(http, http.reqs[i]))]
    /\ UNCHANGED notHttp

\* The body of the response of request i has arrived, or reading it fails
\* (always so once the signal is aborted).
HttpBody ==
  \E i \in DOMAIN http.reqs, arrived \in BOOLEAN :
    /\ http.reqs[i].state = "body"
    /\ HTTP_signalAborted(http, http.reqs[i]) => ~arrived
    /\ http' = HTTP_body(http, i, arrived)
    /\ UNCHANGED notHttp

\* A demuxer reads from the source openHttpByteSource returned.
HttpRead ==
  /\ http.phase = "open"
  /\ Len(http.reads) < MaxHttpReads
  /\ \E whole \in BOOLEAN :
       http' = IF http.mode = "range" THEN HTTP_fetchRange(http, whole)
               ELSE HTTP_fullRead(http)
  /\ UNCHANGED notHttp

HttpAbort ==
  /\ http.phase = "open"
  /\ ~http.aborted
  /\ http' = HTTP_abort(http)
  /\ UNCHANGED notHttp

NextHttp ==
  \/ HttpResponse
  \/ HttpFetchRejects
  \/ HttpSleepEnds
  \/ HttpBody
  \/ HttpRead
  \/ HttpAbort

(***************************************************************************)
(* SpecAdts: the AAC branch of the TS audio path.  A valid ADTS stream is  *)
(* cut into PES payloads of any sizes; each finished PES is handed to the  *)
(* framing code together with whether its header carried a PTS.  Bytes     *)
(* are integers 0..255.                                                    *)
(***************************************************************************)
\* The sequences of a sequence put together in order.
RECURSIVE Flatten(_)
Flatten(seqs) == IF seqs = <<>> THEN <<>> ELSE Head(seqs) \o Flatten(Tail(seqs))

AAC_SAMPLE_RATES ==
  <<96000, 88200, 64000, 48000, 44100, 32000, 24000, 22050, 16000, 12000, 11025,
    8000, 7350>>

\* parseAdtsHeader (lines 333-354): Null, or header length and frame length.
parseAdtsHeader(data, offset) ==
  IF offset + 7 > Len(data) THEN Null
  ELSE LET b(i) == data[offset + i + 1]
           protectionAbsent == (b(1) % 2) # 0
           samplingIndex == (b(2) \div 4) % 16
           sampleRate == IF samplingIndex + 1 \in DOMAIN AAC_SAMPLE_RATES
                           THEN AAC_SAMPLE_RATES[samplingIndex + 1] ELSE 0
           channelConfig == ((b(2) % 2) * 4) + ((b(3) \div 64) % 4)
           frameLen == ((b(3) % 4) * 2048) + (b(4) * 8) + ((b(5) \div 32) % 8)
           headerLen == IF protectionAbsent THEN 7 ELSE 9 IN
       IF b(0) # 255 \/ (b(1) \div 16) # 15 THEN Null
       ELSE IF sampleRate <= 0 \/ channelConfig <= 0 \/ frameLen < headerLen THEN Null
       ELSE Some([headerLen |-> headerLen, frameLen |-> frameLen])

\* The framing loop (lines 938-958): pos is the 0-based offset in combined;
\* every chunk keeps, next to its data, where its frame lay in combined.
RECURSIVE ADTS_frames(_, _, _)
ADTS_frames(combined, pos, out) ==
  IF pos + 7 > Len(combined) THEN [pos |-> pos, chunks |-> out]
  ELSE LET info == parseAdtsHeader(combined, pos) IN
       IF IsNull(info) THEN ADTS_frames(combined, pos + 1, out)
       ELSE IF pos + Val(info).frameLen > Len(combined) THEN [pos |-> pos, chunks |-> out]
       ELSE ADTS_frames(combined, pos + Val(info).frameLen,
              Append(out, [data |-> SubSeq(combined, pos + Val(info).headerLen + 1,
                                           pos + Val(info).frameLen),
                           at |-> pos, frameLen |-> Val(info).frameLen]))

\* Lines 908-960 for one finished audio PES with payload bytes; a PES whose
\* header has no PTS is not parsed at all (line 908).
ADTS_pes(a, bytes, hasPts) ==
  LET taken == [a EXCEPT !.fed = @ + Len(bytes)] IN
  IF ~hasPts THEN [taken EXCEPT !.dropped = @ + Len(bytes), !.noPts = @ + 1]
  ELSE LET combined == a.audioRemainder \o bytes
           r == ADTS_frames(combined, 0, <<>>)
           covered == {i \in 1..r.pos :
                         \E k \in DOMAIN r.chunks :
                           i > r.chunks[k].at /\ i <= r.chunks[k].at + r.chunks[k].frameLen} IN
       [taken EXCEPT !.audioRemainder = SubSeq(combined, r.pos + 1, Len(combined)),
                   !.chunks = @ \o [k \in DOMAIN r.chunks |-> r.chunks[k].data],
                   !.framed = @ + Cardinality(covered),
                   !.skipped = @ + (r.pos - Cardinality(covered))]

\* An ADTS header without CRC (7 bytes), AAC-LC, 44100 Hz.
ADTS_header(channelConfig, frameLen) ==
  <<255, 241,
    64 + 16 + (channelConfig \div 4),
    ((channelConfig % 4) * 64) + (frameLen \div 2048),
    (frameLen \div 8) % 256,
    ((frameLen % 8) * 32) + 31,
    252>>

RECURSIVE ADTS_stream(_, _)
ADTS_stream(channelConfig, payloadLens) ==
  IF payloadLens = <<>> THEN <<>>
  ELSE ADTS_header(channelConfig, 7 + Head(payloadLens))
         \o [i \in 1..Head(payloadLens) |-> 16 + i]
         \o ADTS_stream(channelConfig, Tail(payloadLens))

AdtsChannelConfigs == {0, 2}
AdtsPayloadLens == {1, 2}

ADTS_new(stream) ==
  [stream |-> stream,
   fed |-> 0,                  \* bytes of the stream handed over in PES payloads
   audioRemainder |-> <<>>,
   chunks |-> <<>>,            \* data of the chunks given to onAudioChunk
   framed |-> 0,               \* bytes consumed as frames
   skipped |-> 0,              \* bytes passed over by `pos += 1`
   dropped |-> 0,              \* bytes of PES payloads that were not parsed
   noPts |-> 0,                \* PES packets without PTS so far
   ended |-> FALSE]

AdtsInit ==
  \E n \in 1..MaxAdtsFrames, channelConfig \in AdtsChannelConfigs :
    \E payloadLens \in [1..n -> AdtsPayloadLens] :
      adts = ADTS_new(ADTS_stream(channelConfig, payloadLens))

AdtsIdle == adts = ADTS_new(ADTS_stream(2, <<1>>))

\* The next PES of the audio PID is complete (the following one starts, or
\* the loop has ended and the pending PES is flushed).
AdtsPes ==
  /\ ~adts.ended
  /\ adts.fed < Len(adts.stream)
  /\ \E n \in 1..MaxPesBytes, hasPts \in BOOLEAN :
       /\ adts.fed + n <= Len(adts.stream)
       /\ hasPts \/ adts.noPts < MaxNoPts
       /\ adts' = ADTS_pes(adts, SubSeq(adts.stream, adts.fed + 1, adts.fed + n), hasPts)
  /\ UNCHANGED notAdts

\* onAudioEnd after the last PES.
AdtsEnd ==
  /\ ~adts.ended
  /\ adts.fed = Len(adts.stream)
  /\ adts' = [adts EXCEPT !.ended = TRUE]
  /\ UNCHANGED notAdts

NextAdts ==
  \/ AdtsPes
  \/ AdtsEnd

(***************************************************************************)
(* SpecPump: one WebCodecs session chunk by chunk and frame by frame, with *)
(* or without an audio track.  Video chunk number k has timestamp k and    *)
(* so has audio chunk number k; each decoder gives its outputs back in the *)
(* order it got the chunks.  nowUs is the reading of the media clock,      *)
(* which runs on while the session is not paused.  The audio side is kept  *)
(* by counts.                                                              *)
(***************************************************************************)
\* startDelaySec of onDecodedAudioData in the unit of the chunk timestamps.
PumpStartDelay == 1

PUMP_new(audio) ==
  [produced |-> 0,               \* chunks the demuxer has delivered
   encodedQueue |-> <<>>,
   pending |-> <<>>,             \* chunks in the decoder; decodeQueueSize is its length
   submitted |-> <<>>,           \* every chunk given to decoder.decode, in order
   frameQueue |-> RB_new(FrameQueueCapacity),
   rendered |-> <<>>,            \* frames given to renderer.render, in order
   evicted |-> 0,                \* frames closed by the overflow policy
   demuxEnded |-> FALSE,
   decodeFlushPromise |-> FALSE,
   flushes |-> <<>>,             \* every decoder.flush(): how it found the session
   flush |-> "none",             \* the flush promise: none, pending, resolved, rejected
   clockStarted |-> FALSE,
   nowUs |-> 0,
   paused |-> FALSE,
   renderLoopRaf |-> TRUE,
   audioTrack |-> audio,         \* the session extracts an audio track
   audioDecoder |-> audio,       \* FALSE: null
   waitingForAudioClock |-> audio,
   startedLongAgo |-> FALSE,     \* performance.now() - webcodecsStartMs > 1000
   audioProduced |-> 0,          \* audio chunks the demuxer has delivered
   encodedAudioQueue |-> 0,
   audioPending |-> 0,           \* the audio decoder's decodeQueueSize
   audioDecoded |-> 0,           \* outputs of the audio decoder
   audioDemuxEnded |-> ~audio,
   audioDecodeFlushPromise |-> FALSE,
   audioFlushes |-> <<>>,
   audioFlush |-> "none",
   audioHeld |-> FALSE]          \* the last pumpAudioDecoder left at the 2 s mark

\* The while loop with `<=` in both limits.
RECURSIVE PUMP_submit_inclusive(_)
PUMP_submit_inclusive(p) ==
  IF /\ Len(p.encodedQueue) > 0
     /\ Len(p.pending) <= MaxDecodeQueue
     /\ RB_length(p.frameQueue) <= p.frameQueue.capacity - FramesHeadroom
    THEN PUMP_submit_inclusive([p EXCEPT !.encodedQueue = Tail(@),
                                         !.pending = Append(@, Head(p.encodedQueue)),
                                         !.submitted = Append(@, Head(p.encodedQueue))])
    ELSE p

\* The while loop of pumpWebCodecsDecoder (lines 1693-1704).
RECURSIVE PUMP_submit(_)
PUMP_submit(p) ==
  IF /\ Len(p.encodedQueue) > 0
     /\ Len(p.pending) < MaxDecodeQueue
     /\ RB_length(p.frameQueue) < p.frameQueue.capacity - FramesHeadroom
    THEN PUMP_submit([p EXCEPT !.encodedQueue = Tail(@),
                               !.pending = Append(@, Head(p.encodedQueue)),
                               !.submitted = Append(@, Head(p.encodedQueue))])
    ELSE p

\* decoder.flush() without looking at decodeFlushPromise.
PUMP_pumpWebCodecsDecoder_again(p, endOfStream) ==
  LET noted == PUMP_submit(p) IN
  IF endOfStream /\ Len(noted.encodedQueue) = 0
    THEN [noted EXCEPT !.decodeFlushPromise = TRUE,
                       !.flush = "pending",
                       !.flushes = Append(@, [demuxEnded |-> noted.demuxEnded,
                                              queue |-> Len(noted.encodedQueue)])]
    ELSE noted

\* pumpWebCodecsDecoder (lines 1689-1717); the queues here
\* stay far below the back-pressure marks.
PUMP_pumpWebCodecsDecoder(p, endOfStream) ==
  LET noted == PUMP_submit(p) IN
  IF endOfStream /\ Len(noted.encodedQueue) = 0 /\ ~noted.decodeFlushPromise
    THEN [noted EXCEPT !.decodeFlushPromise = TRUE,
                       !.flush = "pending",
                       !.flushes = Append(@, [demuxEnded |-> noted.demuxEnded,
                                              queue |-> Len(noted.encodedQueue)])]
    ELSE noted

\* pumpAudioDecoder (lines 1918-1954); bufferedAhead: more than 2 s of audio
\* are scheduled ahead of the context's time.
PUMP_pumpAudioDecoder(p, bufferedAhead, endOfStream) ==
  IF ~p.audioDecoder THEN p
  ELSE IF bufferedAhead THEN [p EXCEPT !.audioHeld = TRUE]
  ELSE LET n == Min(p.encodedAudioQueue, Max(0, MaxAudioDecodeQueue - p.audioPending))
           noted == [p EXCEPT !.audioHeld = FALSE,
                              !.encodedAudioQueue = @ - n,
                              !.audioPending = @ + n] IN
       IF endOfStream /\ noted.encodedAudioQueue = 0 /\ ~noted.audioDecodeFlushPromise
         THEN [noted EXCEPT !.audioDecodeFlushPromise = TRUE,
                            !.audioFlush = "pending",
                            !.audioFlushes = Append(@, [demuxEnded |-> noted.audioDemuxEnded,
                                                        queue |-> noted.encodedAudioQueue])]
         ELSE noted

\* More than 2 s can be scheduled ahead only once audio has been scheduled.
PUMP_aheadInputs(p) == IF p.audioDecoded > 0 THEN BOOLEAN ELSE {FALSE}

\* The video chunk callback (lines 1663-1666).
PUMP_onVideoChunk(p) ==
  LET chunk == p.produced + 1 IN
  PUMP_pumpWebCodecsDecoder([p EXCEPT !.produced = chunk,
                                      !.encodedQueue = Append(@, chunk)],
                            FALSE)

\* The video end callback (lines 1667-1670).
PUMP_onVideoEnd(p) ==
  PUMP_pumpWebCodecsDecoder([p EXCEPT !.demuxEnded = TRUE], TRUE)

\* The audio chunk callback (lines 1648-1651).
PUMP_onAudioChunk(p, bufferedAhead) ==
  PUMP_pumpAudioDecoder([p EXCEPT !.audioProduced = @ + 1,
                                  !.encodedAudioQueue = @ + 1],
                        bufferedAhead, FALSE)

\* The audio end callback (lines 1652-1655).
PUMP_onAudioEnd(p, bufferedAhead) ==
  PUMP_pumpAudioDecoder([p EXCEPT !.audioDemuxEnded = TRUE], bufferedAhead, TRUE)

\* onDecodedVideoFrame (lines 1677-1687) for the decoder's next output.
PUMP_onDecodedVideoFrame(p) ==
  LET frame == Head(p.pending)
      started == IF ~p.clockStarted /\ ~p.waitingForAudioClock
                   THEN [p EXCEPT !.clockStarted = TRUE, !.nowUs = frame]
                   ELSE p
      q == WP_enqueueFrame(p.frameQueue, frame) IN
  [started EXCEPT !.pending = Tail(@),
                  !.frameQueue = q.rb,
                  !.evicted = @ + Len(q.closed)]

\* onDecodedAudioData (lines 1956-2010) for the audio decoder's next output;
\* the clock starts startDelaySec before the block's timestamp.  scheduled:
\* the block has samples and is not wholly late, so the function reaches
\* its last line.
PUMP_onDecodedAudioData(p, scheduled, bufferedAhead) ==
  LET timestamp == p.audioDecoded + 1
      out == [p EXCEPT !.audioPending = @ - 1, !.audioDecoded = timestamp]
      started == IF ~out.clockStarted
                   THEN [out EXCEPT !.clockStarted = TRUE,
                                    !.nowUs = timestamp - PumpStartDelay,
                                    !.waitingForAudioClock = FALSE]
                   ELSE out IN
  IF scheduled THEN PUMP_pumpAudioDecoder(started, bufferedAhead, started.audioDemuxEnded)
  ELSE started

\* onAudioDecoderError (lines 2012-2023).
PUMP_onAudioDecoderError(p) ==
  [p EXCEPT !.waitingForAudioClock = FALSE,
            !.audioDecoder = FALSE,
            !.audioPending = 0,
            !.encodedAudioQueue = 0]

\* The while loop of the render loop (lines 1747-1756).
RECURSIVE PUMP_render(_)
PUMP_render(p) ==
  LET next == RB_peek(p.frameQueue) IN
  IF next = Undefined \/ next > p.nowUs THEN p
  ELSE PUMP_render([p EXCEPT !.frameQueue = RB_shift(@).rb,
                             !.rendered = Append(@, next)])

\* The forced start of the clock in the render loop (lines 1727-1738).
PUMP_forceStart(p) ==
  LET peek == RB_peek(p.frameQueue) IN
  IF ~p.clockStarted /\ p.waitingForAudioClock /\ p.startedLongAgo /\ peek # Undefined
    THEN [p EXCEPT !.waitingForAudioClock = FALSE,
                   !.clockStarted = TRUE,
                   !.nowUs = peek]
    ELSE p

\* The render loop's callback (lines 1722-1759).
PUMP_loop(p, bufferedAhead) ==
  IF p.paused THEN p
  ELSE LET f == PUMP_forceStart(p) IN
       IF ~f.clockStarted
         THEN PUMP_pumpAudioDecoder(PUMP_pumpWebCodecsDecoder(f, f.demuxEnded),
                                    bufferedAhead, f.audioDemuxEnded)
         ELSE LET r == PUMP_render(f)
                  v == IF Len(r.rendered) > Len(f.rendered)
                         THEN PUMP_pumpWebCodecsDecoder(r, r.demuxEnded)
                         ELSE r IN
              PUMP_pumpAudioDecoder(v, bufferedAhead, v.audioDemuxEnded)

\* play() (lines 1331-1346).
PUMP_play(p, bufferedAhead) ==
  PUMP_pumpAudioDecoder(
    PUMP_pumpWebCodecsDecoder([p EXCEPT !.paused = FALSE, !.renderLoopRaf = TRUE],
                              p.demuxEnded),
    bufferedAhead, p.audioDemuxEnded)

\* pause() (lines 1348-1359).
PUMP_pause(p) == [p EXCEPT !.paused = TRUE, !.renderLoopRaf = FALSE]

PumpInit == \E audio \in BOOLEAN : pmp = PUMP_new(audio)
PumpIdle == pmp = PUMP_new(FALSE)

\* The demuxer delivers the next video chunk.
PumpVideoChunk ==
  /\ ~pmp.demuxEnded
  /\ pmp.produced < (IF pmp.audioTrack THEN MaxPumpChunksWithAudio ELSE MaxPumpChunks)
  /\ pmp' = PUMP_onVideoChunk(pmp)
  /\ UNCHANGED notPump

\* The demuxer reports the end of the video track.
PumpVideoEnd ==
  /\ ~pmp.demuxEnded
  /\ pmp' = PUMP_onVideoEnd(pmp)
  /\ UNCHANGED notPump

\* The demuxer delivers the next audio chunk.
PumpAudioChunk ==
  /\ ~pmp.audioDemuxEnded
  /\ pmp.audioProduced < MaxPumpAudioChunks
  /\ \E ahead \in PUMP_aheadInputs(pmp) : pmp' = PUMP_onAudioChunk(pmp, ahead)
  /\ UNCHANGED notPump

\* The demuxer reports the end of the audio track.
PumpAudioEnd ==
  /\ ~pmp.audioDemuxEnded
  /\ \E ahead \in PUMP_aheadInputs(pmp) : pmp' = PUMP_onAudioEnd(pmp, ahead)
  /\ UNCHANGED notPump

\* The decoder outputs a frame.
PumpDecoderOutput ==
  /\ pmp.pending # <<>>
  /\ pmp' = PUMP_onDecodedVideoFrame(pmp)
  /\ UNCHANGED notPump

\* The audio decoder outputs a block.
PumpAudioOutput ==
  /\ pmp.audioDecoder
  /\ pmp.audioPending > 0
  /\ \E scheduled \in BOOLEAN, ahead \in BOOLEAN :
       pmp' = PUMP_onDecodedAudioData(pmp, scheduled, ahead)
  /\ UNCHANGED notPump

\* The audio decoder reports an error.
PumpAudioError ==
  /\ pmp.audioDecoder
  /\ pmp.audioPending > 0
  /\ pmp' = PUMP_onAudioDecoderError(pmp)
  /\ UNCHANGED notPump

\* A second has gone by since the session started without the clock.
PumpSecondPasses ==
  /\ pmp.waitingForAudioClock
  /\ ~pmp.clockStarted
  /\ ~pmp.startedLongAgo
  /\ pmp' = [pmp EXCEPT !.startedLongAgo = TRUE]
  /\ UNCHANGED notPump

\* requestAnimationFrame calls the render loop.
PumpTick ==
  /\ pmp.renderLoopRaf
  /\ \E ahead \in PUMP_aheadInputs(pmp) : pmp' = PUMP_loop(pmp, ahead)
  /\ UNCHANGED notPump

\* The media clock moves on.
PumpAdvance ==
  /\ pmp.clockStarted
  /\ ~pmp.paused
  /\ pmp.nowUs <= pmp.produced
  /\ pmp' = [pmp EXCEPT !.nowUs = @ + 1]
  /\ UNCHANGED notPump

PumpPlay ==
  /\ pmp.paused
  /\ \E ahead \in PUMP_aheadInputs(pmp) : pmp' = PUMP_play(pmp, ahead)
  /\ UNCHANGED notPump

PumpPause ==
  /\ ~pmp.paused
  /\ pmp' = PUMP_pause(pmp)
  /\ UNCHANGED notPump

\* The promise of decoder.flush() settles; `.then(() => {}).catch(() => {})`.
PumpFlushSettles ==
  /\ pmp.flush = "pending"
  /\ \E ok \in BOOLEAN :
       pmp' = [pmp EXCEPT !.flush = IF ok THEN "resolved" ELSE "rejected"]
  /\ UNCHANGED notPump

\* The promise of the audio decoder's flush() settles.
PumpAudioFlushSettles ==
  /\ pmp.audioFlush = "pending"
  /\ \E ok \in BOOLEAN :
       pmp' = [pmp EXCEPT !.audioFlush = IF ok THEN "resolved" ELSE "rejected"]
  /\ UNCHANGED notPump

NextPump ==
  \/ PumpVideoChunk
  \/ PumpVideoEnd
  \/ PumpAudioChunk
  \/ PumpAudioEnd
  \/ PumpDecoderOutput
  \/ PumpAudioOutput
  \/ PumpAudioError
  \/ PumpSecondPasses
  \/ PumpTick
  \/ PumpAdvance
  \/ PumpPlay
  \/ PumpPause
  \/ PumpFlushSettles
  \/ PumpAudioFlushSettles

(***************************************************************************)
(* SpecTsx: the extract loop of TSDemuxer over a file of `size` buffers of *)
(* PacketsPerBuffer packets of one elementary stream.  Packet number k     *)
(* starts PES number k, so its arrival completes PES k - 1, which is       *)
(* handed to the chunk callback; the callback may call pauseExtraction     *)
(* (back-pressure), and so may the player while the loop awaits a read.    *)
(***************************************************************************)
PacketsPerBuffer == MaxTsPackets

TSX_new(size) ==
  [size |-> size,
   offset |-> 0,            \* buffers read
   pc |-> "read",           \* read | parked (on a resume waiter) | done
   paused |-> FALSE,
   pes |-> 0,               \* the PES being assembled; 0: none
   delivered |-> <<>>,      \* the PES handed to the chunk callback, in order
   ended |-> FALSE]

\* The chunk callback for PES n; pauses: the callback calls pauseExtraction.
TSX_onChunk(t, n, pauses) ==
  [t EXCEPT !.delivered = Append(@, n), !.paused = @ \/ pauses]

\* The packet loop (lines 832-980) from packet index pi of the buffer whose
\* first packet has number first; pauseAt: the index of the packet during
\* which the chunk callback pauses extraction, PacketsPerBuffer: none.
RECURSIVE TSX_packets(_, _, _, _)
TSX_packets(t, first, pi, pauseAt) ==
  IF pi >= PacketsPerBuffer \/ t.paused THEN t
  ELSE LET k == first + pi
           done == IF t.pes # 0 THEN TSX_onChunk(t, t.pes, pauseAt = pi) ELSE t IN
       TSX_packets([done EXCEPT !.pes = k], first, pi + 1, pauseAt)

\* After the while loop (lines 986-1081): the PES still assembled is
\* flushed and the end callbacks are called.
TSX_finish(t) ==
  LET flushed == IF t.pes # 0 THEN TSX_onChunk(t, t.pes, FALSE) ELSE t IN
  [flushed EXCEPT !.pes = 0, !.ended = TRUE, !.pc = "done"]

\* The while condition and waitIfPaused (lines 806-807).
TSX_loopTop(t) ==
  IF t.offset < t.size
    THEN [t EXCEPT !.pc = IF t.paused THEN "parked" ELSE "read"]
    ELSE TSX_finish(t)

\* The read of the next buffer returns (lines 808-984).
TSX_readReturns(t, pauseAt) ==
  LET first == t.offset * PacketsPerBuffer + 1
      got == [t EXCEPT !.offset = @ + 1] IN
  TSX_loopTop(TSX_packets(got, first, 0, pauseAt))

\* resumeExtraction (lines 530-534).
TSX_resumeExtraction(t) ==
  [t EXCEPT !.paused = FALSE, !.pc = IF @ = "parked" THEN "read" ELSE @]

TsxInit == \E size \in 1..MaxTsBuffers : tsx = TSX_new(size)
TsxIdle == tsx = TSX_new(1)

TsxRead ==
  /\ tsx.pc = "read"
  /\ \E pauseAt \in 0..PacketsPerBuffer : tsx' = TSX_readReturns(tsx, pauseAt)
  /\ UNCHANGED notTsx

\* pauseExtraction while the loop awaits.
TsxPause ==
  /\ tsx.pc # "done"
  /\ ~tsx.paused
  /\ tsx' = [tsx EXCEPT !.paused = TRUE]
  /\ UNCHANGED notTsx

TsxResume ==
  /\ tsx.pc # "done"
  /\ tsx.paused
  /\ tsx' = TSX_resumeExtraction(tsx)
  /\ UNCHANGED notTsx

NextTsx ==
  \/ TsxRead
  \/ TsxPause
  \/ TsxResume

(***************************************************************************)
(* SpecPck: the media clock of one WebCodecs session under play, pause and *)
(* the outputs of the decoders.  perfMs is performance.now(), ctxMs the    *)
(* AudioContext's currentTime in milliseconds, which runs while the        *)
(* context is "running"; suspend() and resume() of the context take effect *)
(* when their promise settles.  head is the frame at the head of the ring. *)
(* userPaused and atPause are history: pause() was the last of play and    *)
(* pause, and what getCurrentTimeUs() returned when it was called.         *)
(***************************************************************************)
\* The session startWebCodecsDemuxerPipeline leaves behind (lines 1510-1519,
\* audio set-up 1610-1640).
PCK_new(audio) ==
  [paused |-> FALSE, clockStarted |-> FALSE, waitingForAudioClock |-> audio,
   audioContext |-> audio, audioDecoder |-> audio,
   ctxState |-> "running", ctxRequest |-> "none",
   clock |-> MC_new, perfMs |-> 0, ctxMs |-> 0, head |-> Null,
   userPaused |-> FALSE, atPause |-> 0]

PCK_wallClockMs(p) == IF p.audioContext THEN p.ctxMs ELSE p.perfMs

PCK_getCurrentTimeUs(p) ==
  IF ~p.clockStarted THEN 0 ELSE MC_nowUs(p.clock, PCK_wallClockMs(p))

PCK_startClock(p, timestampUs, wallClockMs) ==
  [p EXCEPT !.clock = MC_start(@, timestampUs, wallClockMs), !.clockStarted = TRUE]

PCK_onDecodedVideoFrame(p, timestamp) ==
  LET p1 == IF ~p.clockStarted /\ ~p.waitingForAudioClock
              THEN PCK_startClock(p, timestamp, PCK_wallClockMs(p)) ELSE p IN
  [p1 EXCEPT !.head = IF IsNull(@) THEN Some(timestamp) ELSE @]

PCK_onDecodedAudioData(p, timestamp) ==
  IF ~p.audioContext THEN p
  ELSE IF p.clockStarted THEN p
  ELSE LET baseTimeSec == SecFromMs(p.ctxMs) + StartDelaySec IN
       [PCK_startClock(p, timestamp, MsFromSec(baseTimeSec))
          EXCEPT !.waitingForAudioClock = FALSE]

PCK_onAudioDecoderError(p) ==
  [p EXCEPT !.waitingForAudioClock = FALSE, !.audioDecoder = FALSE]

\* The render loop's callback; waited: more than 1000 ms since the pipeline
\* was started; due: the frame at the head is rendered.
PCK_loop(p, waited, due) ==
  IF p.paused THEN p
  ELSE
    LET p1 == IF ~p.clockStarted /\ p.waitingForAudioClock /\ waited /\ ~IsNull(p.head)
                THEN PCK_startClock([p EXCEPT !.waitingForAudioClock = FALSE],
                                    Val(p.head), PCK_wallClockMs(p))
                ELSE p IN
    IF ~p1.clockStarted THEN p1
    ELSE IF due /\ ~IsNull(p1.head)
              /\ Val(p1.head) <= MC_nowUs(p1.clock, PCK_wallClockMs(p1))
      THEN [p1 EXCEPT !.head = Null]
      ELSE p1

PCK_pause(p) ==
  [p EXCEPT !.paused = TRUE,
            !.ctxRequest = IF p.audioContext THEN "suspend" ELSE @,
            !.clock = MC_pause(@, PCK_wallClockMs(p))]

PCK_play(p) ==
  [p EXCEPT !.paused = FALSE,
            !.ctxRequest = IF p.audioContext THEN "resume" ELSE @,
            !.clock = MC_resume(@, PCK_wallClockMs(p))]

PckInit == \E audio \in BOOLEAN : pck = PCK_new(audio)

PckIdle == pck = PCK_new(FALSE)

\* The VideoDecoder outputs a frame (line 1577).
PckVideoFrame ==
  /\ \E timestamp \in StartTimestamps : pck' = PCK_onDecodedVideoFrame(pck, timestamp)
  /\ UNCHANGED notPck

\* The AudioDecoder outputs a block (line 1617).
PckAudioData ==
  /\ pck.audioDecoder
  /\ \E timestamp \in StartTimestamps : pck' = PCK_onDecodedAudioData(pck, timestamp)
  /\ UNCHANGED notPck

PckAudioError ==
  /\ pck.audioDecoder
  /\ pck' = PCK_onAudioDecoderError(pck)
  /\ UNCHANGED notPck

PckLoop ==
  /\ \E waited \in BOOLEAN, due \in BOOLEAN : pck' = PCK_loop(pck, waited, due)
  /\ UNCHANGED notPck

PckPause ==
  /\ pck' = [PCK_pause(pck) EXCEPT !.userPaused = TRUE,
                                   !.atPause = PCK_getCurrentTimeUs(pck)]
  /\ UNCHANGED notPck

PckPlay ==
  /\ pck' = [PCK_play(pck) EXCEPT !.userPaused = FALSE]
  /\ UNCHANGED notPck

\* The promise of audioContext.suspend() or resume() settles.
PckContextSettles ==
  /\ pck.ctxRequest # "none"
  /\ pck' = [pck EXCEPT !.ctxState = IF pck.ctxRequest = "suspend"
                                       THEN "suspended" ELSE "running",
                        !.ctxRequest = "none"]
  /\ UNCHANGED notPck

\* A millisecond goes by.
PckAdvance ==
  /\ pck.perfMs < MaxWall
  /\ pck' = [pck EXCEPT !.perfMs = @ + 1,
                        !.ctxMs = IF pck.ctxState = "running" THEN @ + 1 ELSE @]
  /\ UNCHANGED notPck

NextPck ==
  \/ PckVideoFrame
  \/ PckAudioData
  \/ PckAudioError
  \/ PckLoop
  \/ PckPause
  \/ PckPlay
  \/ PckContextSettles
  \/ PckAdvance

(***************************************************************************)
(* SpecSw: the subtitle selection of a playing MKV file.  The file has the *)
(* text tracks 1 (S_TEXT/UTF8) and 2 (S_TEXT/ASS) and the PGS track 3; the *)
(* extract loop started for the video track reads MaxSwClusters clusters   *)
(* of MaxSwBlocks subtitle blocks each, and the user selects a track or    *)
(* none at any await of the loop.  cues is history: for every cue handed   *)
(* to the cue callback the track of the block it was made from, the codec  *)
(* it was decoded with and the track selected at that moment.              *)
(***************************************************************************)
SwTextTracks == {1, 2}
SwPgsTrack == 3
SwCodecId(track) ==
  IF track = 1 THEN "S_TEXT/UTF8" ELSE IF track = 2 THEN "S_TEXT/ASS" ELSE "S_HDMV/PGS"

\* The fields after open and startVideoExtraction; 0 stands for null.
\* loop.pc: "top" (at the head of the outer while) | "cluster" (inside
\* parseCluster, at a read) | "done".
SW_new ==
  [selected |-> 0, onSubtitleCue |-> FALSE,
   extractSubtitleTrackNo |-> 0, extractSubtitleTrack |-> 0,
   pendingSubtitle |-> Null, pgsExtractSeq |-> 0, scans |-> {},
   loop |-> [pc |-> "top", subtitleTrackNo |-> 0, cluster |-> 0, block |-> 0],
   cues |-> <<>>, selects |-> 0]

SW_onCue(w, track, codecId) ==
  [w EXCEPT !.cues = Append(@, [track |-> track, codecId |-> codecId,
                                selected |-> w.selected])]

SW_flushPendingSubtitle(w) ==
  IF IsNull(w.pendingSubtitle) \/ ~w.onSubtitleCue THEN w
  ELSE LET pending == Val(w.pendingSubtitle) IN
       SW_onCue([w EXCEPT !.pendingSubtitle = Null], pending.track, pending.codecId)

\* handleBlock for a block of a subtitle track; subtitleTrackNo is the
\* argument the loop passes in; timed: the block has a duration.
SW_handleBlock(w, trackNo, subtitleTrackNo, timed) ==
  IF trackNo = subtitleTrackNo /\ w.onSubtitleCue
    THEN LET codecId == IF w.extractSubtitleTrack = 0 THEN ""
                        ELSE SwCodecId(w.extractSubtitleTrack) IN
         IF codecId = "S_HDMV/PGS" THEN w
         ELSE LET w1 == SW_flushPendingSubtitle(w) IN
              IF timed THEN SW_onCue(w1, trackNo, codecId)
              ELSE [w1 EXCEPT !.pendingSubtitle =
                                Some([track |-> trackNo, codecId |-> codecId])]
    ELSE w

SW_stopSubtitleExtraction(w) ==
  [w EXCEPT !.pgsExtractSeq = @ + 1,
            !.onSubtitleCue = FALSE,
            !.extractSubtitleTrackNo = 0,
            !.extractSubtitleTrack = 0,
            !.pendingSubtitle = Null]

SW_startSubtitleExtraction(w, track) ==
  LET w1 == [w EXCEPT !.onSubtitleCue = TRUE,
                      !.extractSubtitleTrack = track,
                      !.pendingSubtitle = Null] IN
  IF SwCodecId(track) = "S_HDMV/PGS"
    THEN [w1 EXCEPT !.extractSubtitleTrackNo = 0,
                    !.pgsExtractSeq = @ + 1,
                    !.scans = @ \cup {[seq |-> w1.pgsExtractSeq + 1, track |-> track]}]
    ELSE [w1 EXCEPT !.pgsExtractSeq = @ + 1,
                    !.extractSubtitleTrackNo = track]

\* WebPlayer.selectInternalSubtitleTrack; id 0 is null.
SW_selectInternalSubtitleTrack(w, id) ==
  LET w1 == SW_stopSubtitleExtraction([w EXCEPT !.selected = id]) IN
  IF id = 0 THEN w1 ELSE SW_startSubtitleExtraction(w1, id)

\* The then and finally callbacks of a PGS scan.
SW_scanSettles(w, scan) ==
  LET w1 == [w EXCEPT !.scans = @ \ {scan}] IN
  IF scan.seq # w.pgsExtractSeq THEN w1
  ELSE IF w1.onSubtitleCue THEN SW_onCue(w1, scan.track, "S_HDMV/PGS")
  ELSE w1

SwInit == sw = SW_new

SwIdle == sw = SW_new

\* The loop passes the head of the outer while and reads a cluster's header.
SwLoopTop ==
  /\ sw.loop.pc = "top"
  /\ sw' = IF sw.loop.cluster >= MaxSwClusters
             THEN [SW_flushPendingSubtitle(sw) EXCEPT !.loop.pc = "done"]
             ELSE [sw EXCEPT !.loop.pc = "cluster",
                             !.loop.subtitleTrackNo = sw.extractSubtitleTrackNo,
                             !.loop.block = 0]
  /\ UNCHANGED notSw

\* A read inside parseCluster returns: the next block, or the cluster's end.
SwLoopBlock ==
  /\ sw.loop.pc = "cluster"
  /\ IF sw.loop.block >= MaxSwBlocks
       THEN sw' = [sw EXCEPT !.loop.pc = "top", !.loop.cluster = @ + 1]
       ELSE \E trackNo \in SwTextTracks, timed \in BOOLEAN :
              sw' = [SW_handleBlock(sw, trackNo, sw.loop.subtitleTrackNo, timed)
                       EXCEPT !.loop.block = @ + 1]
  /\ UNCHANGED notSw

SwSelect ==
  /\ sw.selects < MaxSwSelects
  /\ \E id \in {0} \cup SwTextTracks \cup {SwPgsTrack} :
       /\ id # sw.selected
       /\ sw' = [SW_selectInternalSubtitleTrack(sw, id) EXCEPT !.selects = @ + 1]
  /\ UNCHANGED notSw

SwScanSettles ==
  /\ \E scan \in sw.scans : sw' = SW_scanSettles(sw, scan)
  /\ UNCHANGED notSw

NextSw ==
  \/ SwLoopTop
  \/ SwLoopBlock
  \/ SwSelect
  \/ SwScanSettles

NextRing ==
  \/ RingPush
  \/ RingShift
  \/ RingPeek
  \/ RingClear
  \/ RingFeed
  \/ RingStartDrain
  \/ RingDrain

NextClock ==
  \/ ClockStart
  \/ ClockPause
  \/ ClockResume
  \/ ClockSeek
  \/ ClockSetRate
  \/ AdvanceWall
  \/ AdvancePerf

NextDemux ==
  \/ MP4_onSamples
  \/ MKV_clusterTimecode
  \/ MKV_handleBlock
  \/ TS_videoPes
  \/ TS_audioPes
  \/ DemuxEndOfStream

Next ==
  \/ LoadCall
  \/ LoadInit
  \/ LoadOpenSource
  \/ LoadOpen
  \/ LoadTracks
  \/ LoadVideoSupport
  \/ LoadVideoPlay
  \/ Stop
  \/ Play
  \/ Pause
  \/ VideoChunk
  \/ VideoEnd
  \/ VideoDecoderOutput
  \/ RenderLoop

InitRing == RingInit /\ ClockInit /\ DemuxIdle /\ PlayerInit /\ CtlIdle /\ LookIdle /\ AudioIdle /\ SubIdle /\ OpenIdle /\ HttpIdle /\ AdtsIdle /\ PumpIdle /\ TsxIdle /\ PckIdle /\ SwIdle
InitClock == RingIdle /\ ClockInit /\ DemuxIdle /\ PlayerInit /\ CtlIdle /\ LookIdle /\ AudioIdle /\ SubIdle /\ OpenIdle /\ HttpIdle /\ AdtsIdle /\ PumpIdle /\ TsxIdle /\ PckIdle /\ SwIdle
InitDemux == RingIdle /\ ClockInit /\ DemuxInit /\ PlayerInit /\ CtlIdle /\ LookIdle /\ AudioIdle /\ SubIdle /\ OpenIdle /\ HttpIdle /\ AdtsIdle /\ PumpIdle /\ TsxIdle /\ PckIdle /\ SwIdle
Init == RingIdle /\ ClockInit /\ DemuxIdle /\ PlayerInit /\ CtlIdle /\ LookIdle /\ AudioIdle /\ SubIdle /\ OpenIdle /\ HttpIdle /\ AdtsIdle /\ PumpIdle /\ TsxIdle /\ PckIdle /\ SwIdle
InitSession == RingIdle /\ ClockInit /\ DemuxIdle /\ SessionInit /\ CtlIdle /\ LookIdle /\ AudioIdle /\ SubIdle /\ OpenIdle /\ HttpIdle /\ AdtsIdle /\ PumpIdle /\ TsxIdle /\ PckIdle /\ SwIdle
InitPlayback == RingIdle /\ ClockInit /\ DemuxIdle /\ PlaybackInit /\ CtlIdle /\ LookIdle /\ AudioIdle /\ SubIdle /\ OpenIdle /\ HttpIdle /\ AdtsIdle /\ PumpIdle /\ TsxIdle /\ PckIdle /\ SwIdle
InitCtl == RingIdle /\ ClockInit /\ DemuxIdle /\ PlayerInit /\ CtlInit /\ LookIdle /\ AudioIdle /\ SubIdle /\ OpenIdle /\ HttpIdle /\ AdtsIdle /\ PumpIdle /\ TsxIdle /\ PckIdle /\ SwIdle
InitLook == RingIdle /\ ClockInit /\ DemuxIdle /\ PlayerInit /\ CtlIdle /\ LookInit /\ AudioIdle /\ SubIdle /\ OpenIdle /\ HttpIdle /\ AdtsIdle /\ PumpIdle /\ TsxIdle /\ PckIdle /\ SwIdle
InitAudio == RingIdle /\ ClockInit /\ DemuxIdle /\ PlayerInit /\ CtlIdle /\ LookIdle /\ AudioInit /\ SubIdle /\ OpenIdle /\ HttpIdle /\ AdtsIdle /\ PumpIdle /\ TsxIdle /\ PckIdle /\ SwIdle
InitSub == RingIdle /\ ClockInit /\ DemuxIdle /\ PlayerInit /\ CtlIdle /\ LookIdle /\ AudioIdle /\ SubInit /\ OpenIdle /\ HttpIdle /\ AdtsIdle /\ PumpIdle /\ TsxIdle /\ PckIdle /\ SwIdle
InitOpen == RingIdle /\ ClockInit /\ DemuxIdle /\ PlayerInit /\ CtlIdle /\ LookIdle /\ AudioIdle /\ SubIdle /\ OpenInit /\ HttpIdle /\ AdtsIdle /\ PumpIdle /\ TsxIdle /\ PckIdle /\ SwIdle
InitHttp == RingIdle /\ ClockInit /\ DemuxIdle /\ PlayerInit /\ CtlIdle /\ LookIdle /\ AudioIdle /\ SubIdle /\ OpenIdle /\ HttpInit /\ AdtsIdle /\ PumpIdle /\ TsxIdle /\ PckIdle /\ SwIdle
InitAdts == RingIdle /\ ClockInit /\ DemuxIdle /\ PlayerInit /\ CtlIdle /\ LookIdle /\ AudioIdle /\ SubIdle /\ OpenIdle /\ HttpIdle /\ AdtsInit /\ PumpIdle /\ TsxIdle /\ PckIdle /\ SwIdle
InitPump == RingIdle /\ ClockInit /\ DemuxIdle /\ PlayerInit /\ CtlIdle /\ LookIdle /\ AudioIdle /\ SubIdle /\ OpenIdle /\ HttpIdle /\ AdtsIdle /\ PumpInit /\ TsxIdle /\ PckIdle /\ SwIdle
InitTsx == RingIdle /\ ClockInit /\ DemuxIdle /\ PlayerInit /\ CtlIdle /\ LookIdle /\ AudioIdle /\ SubIdle /\ OpenIdle /\ HttpIdle /\ AdtsIdle /\ PumpIdle /\ TsxInit /\ PckIdle /\ SwIdle
InitPck == RingIdle /\ ClockInit /\ DemuxIdle /\ PlayerInit /\ CtlIdle /\ LookIdle /\ AudioIdle /\ SubIdle /\ OpenIdle /\ HttpIdle /\ AdtsIdle /\ PumpIdle /\ TsxIdle /\ PckInit /\ SwIdle
InitSw == RingIdle /\ ClockInit /\ DemuxIdle /\ PlayerInit /\ CtlIdle /\ LookIdle /\ AudioIdle /\ SubIdle /\ OpenIdle /\ HttpIdle /\ AdtsIdle /\ PumpIdle /\ TsxIdle /\ PckIdle /\ SwInit

SpecRing == InitRing /\ [][NextRing]_vars
SpecClock == InitClock /\ [][NextClock]_vars
SpecDemux == InitDemux /\ [][NextDemux]_vars
Spec == Init /\ [][Next]_vars
SpecSession == InitSession /\ [][NextSession]_vars
SpecPlayback == InitPlayback /\ [][NextPlayback]_vars
SpecCtl == InitCtl /\ [][NextCtl]_vars
SpecLook == InitLook /\ [][NextLook]_vars
SpecAudio == InitAudio /\ [][NextAudio]_vars
SpecSub == InitSub /\ [][NextSub]_vars
SpecOpen == InitOpen /\ [][NextOpen]_vars
SpecHttp == InitHttp /\ [][NextHttp]_vars
SpecAdts == InitAdts /\ [][NextAdts]_vars
SpecPump == InitPump /\ [][NextPump]_vars
SpecTsx == InitTsx /\ [][NextTsx]_vars
SpecBp == InitPlayback /\ [][NextBp]_vars
SpecPck == InitPck /\ [][NextPck]_vars
SpecSw == InitSw /\ [][NextSw]_vars
\* The browser goes on calling the render loop while it is requested, the
\* demuxer goes on delivering up to the end of each track, the decoders go
\* on giving their outputs, and time goes by.
SpecPumpFair ==
  /\ InitPump
  /\ [][NextPump]_vars
  /\ WF_vars(PumpVideoChunk)
  /\ WF_vars(PumpVideoEnd)
  /\ WF_vars(PumpAudioChunk)
  /\ WF_vars(PumpAudioEnd)
  /\ WF_vars(PumpTick)
  /\ WF_vars(PumpDecoderOutput)
  /\ WF_vars(PumpAudioOutput)
  /\ WF_vars(PumpSecondPasses)
  /\ WF_vars(PumpAdvance)

(***************************************************************************)
(* Properties                                                              *)
(***************************************************************************)

LastN(seq, n) == SubSeq(seq, Len(seq) - n + 1, Len(seq))

\* C7: after any sequence of push, shift, peek and clear on a RingBuffer of
\* capacity C its length is within 0..C, and a push on a full buffer returns
\* false and leaves the buffer (length and contents) as it was.
C7_LengthWithinCapacity ==
  /\ RB_length(ring) >= 0
  /\ RB_length(ring) <= ring.capacity
  /\ (ringLast.op = "push" /\ RB_length(ringLast.before) = ringLast.before.capacity)
       => /\ ringLast.ok = FALSE
          /\ RB_length(ring) = RB_length(ringLast.before)
          /\ RB_contents(ring) = RB_contents(ringLast.before)

C7_Witness ==
  /\ ringLast.op = "push"
  /\ RB_length(ringLast.before) = ringLast.before.capacity
  /\ ringLast.before.head # 0
  /\ RB_length(ring) = ring.capacity

\* C8: N items fed through a ring of capacity C with the orchestrator's
\* overflow policy and then shifted until the ring is empty come out in their
\* original order when N <= C, and as exactly the last C items, in order, when
\* N > C.
C8_FeedThenDrain ==
  (ringPhase = "drain" /\ RB_length(ring) = 0)
    => drained = LastN(fed, Min(Len(fed), ring.capacity))

C8_Witness ==
  /\ ringPhase = "drain"
  /\ RB_length(ring) = 0
  /\ Len(fed) > ring.capacity
  /\ ring.capacity > 1
  /\ drained # <<>>
  /\ \E i \in 1..Len(fed) : fed[i] # fed[1]

\* C9: after pause(w0) the clock reads the same value at every wall time; after
\* resume(w1) it reads that value at w1; so pause and resume at an unchanged
\* wall time (pause; resume; pause; resume) leave the reading unchanged.
C9_PauseResumeKeepReading ==
  /\ MC_isPaused(clock)
       => \A w1, w2 \in Walls : MC_nowUs(clock, w1) = MC_nowUs(clock, w2)
  /\ clockLast.op \in {"pause", "resume"}
       => MC_nowUs(clock, clockLast.wall) = clockLast.before

\* C10: while the clock is running (not paused, rate > 0), for wall samples
\* w1 <= w2: now_us(w2) - now_us(w1) = (w2 - w1) * 1000 * rate, and so
\* now_us(w2) >= now_us(w1).
C10_RunningClockIsLinear ==
  (~MC_isPaused(clock) /\ clock.playbackRate > 0)
    => \A w1, w2 \in Walls :
         w1 <= w2 =>
           /\ MC_nowUs(clock, w2) - MC_nowUs(clock, w1)
                = (w2 - w1) * 1000 * clock.playbackRate
           /\ MC_nowUs(clock, w2) >= MC_nowUs(clock, w1)

C10_Witness ==
  /\ ~MC_isPaused(clock)
  /\ clock.playbackRate > 1
  /\ clock.baseWallClockMs > 0
  /\ clock.baseTimestampUs > 0
  /\ clockLast.op = "resume"


C2_OneDemuxerOneDecoder ==
  /\ Cardinality({id \in LoadIds : DMX_live(dmxs[id])}) <= 1
  /\ Cardinality({id \in LoadIds : DEC_live(vdecs[id])}) <= 1

\* C3: from the return of stop() until the next load call the pipeline is
\* none, the render loop is cancelled, the frame ring and both encoded queues
\* are empty, no audio source is scheduled, every decoder is closed and every
\* demuxer is stopped.
C3_StoppedStaysStopped ==
  ghost.stopped =>
    /\ wp.pipeline = "none"
    /\ ~wp.renderLoopRaf
    /\ RB_length(wp.frameQueue) = 0
    /\ wp.encodedQueue = 0
    /\ wp.encodedAudioQueue = 0
    /\ wp.audioSources = 0
    /\ \A id \in LoadIds : ~DEC_live(vdecs[id]) /\ ~DEC_live(adecs[id])
    /\ \A id \in LoadIds : ~DMX_live(dmxs[id])

\* C4: with the session not paused, extraction is paused whenever the encoded
\* video queue or the encoded audio queue holds more than HighWater chunks.
C4_PausedAboveHighWater ==
  (/\ ~wp.paused
   /\ ~IsNull(wp.demuxer)
   /\ (wp.encodedQueue > HighWater \/ wp.encodedAudioQueue > HighWater))
    => ~SessionExtracting(World)

\* The render loop can do nothing for the frames in the ring and nothing more
\* will arrive: the clock is not started and is not waiting for audio, the
\* ring has reached the level at which the pump stops submitting, and the
\* VideoDecoder has output every frame it was given.
PlaybackStalled ==
  /\ ~wp.paused
  /\ ~wp.clockStarted
  /\ ~wp.waitingForAudioClock
  /\ RB_length(wp.frameQueue) >= wp.frameQueue.capacity - FramesHeadroom
  /\ vdecs[1].queued = 0

\* C11: once the audio decoder has failed (at set-up or with a runtime error)
\* audio is disabled - no audio decoder, an empty encoded audio queue - and
\* video goes on: with the player not paused and every frame given to the
\* VideoDecoder delivered, the clock is started or can still be started, so
\* that the frames in the ring are rendered.
C11_VideoContinuesAfterAudioFailure ==
  (adecs[1].state \in {"unconfigured", "closed"}) =>
    /\ IsNull(wp.audioDecoder)
    /\ wp.encodedAudioQueue = 0
    /\ ~PlaybackStalled

\* C12: when a load has failed and no fallback was taken - no other load
\* having been called - the pipeline is none and the demuxer and the video
\* decoder of the failed load are stopped and closed.
C12_FailedLoadRollsBack ==
  (loads[1].pc = "failed" /\ loads[2].pc = "none") =>
    /\ wp.pipeline = "none"
    /\ ~DMX_live(dmxs[1])
    /\ ~DEC_live(vdecs[1])

\* C13: a load of a source detected as MPEG-TS (or MKV) never starts the
\* native media-element pipeline.
C13_NoFallbackForTs ==
  \A id \in LoadIds : loads[id].container = "ts" => loads[id].pc # "videoPlay"

\* C14: in a WebCodecs session the wall clock is the audio device's current
\* time if and only if the session is audio-enabled (an audio decoder is in
\* use); without an audio track, or once audio has been disabled, it is the
\* monotonic system clock.
C14_AudioClockIffAudioEnabled ==
  WP_isWebCodecsPipeline(World) =>
    (WP_wallClockMs(World) = "audioContext.currentTime" <=> ~IsNull(wp.audioDecoder))

\* C15: an extraction that stop() was called on delivers no further chunk and
\* no end-of-track callback, whichever await its loop was suspended at, and
\* also when the same instance is opened and started again.
C15_StoppedDeliversNothing == ~ctl.staleChunk /\ ~ctl.staleEnd

\* C16: for MKV and TS every accepted video access unit is emitted exactly
\* once, in order: the chunks delivered are the accepted units except the
\* one held in the look-ahead; when the loop has reached the end of the
\* stream all accepted units were delivered, the last one with duration 0,
\* and onVideoEnd ran after the last chunk.
C16_LookAheadEmittedOnce ==
  LET held == IF IsNull(look.pendingVideo) THEN 0 ELSE 1
      n == Len(look.chunks) IN
  /\ n + (IF look.finished THEN 0 ELSE held) = Len(look.accepted)
  /\ \A i \in 1..n : look.chunks[i].timestamp = look.accepted[i]
  /\ look.finished /\ n > 0 => look.chunks[n].duration = 0
  /\ look.finished /\ look.onVideoChunk => look.videoEnd = Some(Len(look.accepted))

\* A stream with exactly one video sample was extracted to its end: one chunk
\* with duration 0.
C16_Witness ==
  /\ look.finished
  /\ Len(look.accepted) = 1
  /\ Len(look.chunks) = 1
  /\ look.chunks[1].duration = 0

C18_ScheduledOnTime ==
  aud.last.outcome = "scheduled" =>
    /\ aud.last.startSec =
         SecFromMs(aud.clockBaseWallClockMs)
           + (aud.last.timestamp + aud.last.startOffsetSec - aud.clockBaseTimestampUs)
    /\ aud.last.playDurSec = aud.last.duration - aud.last.startOffsetSec
    /\ aud.last.startOffsetSec >= 0
    /\ aud.last.startOffsetSec < aud.last.duration
    /\ aud.last.startSec >= aud.last.now
    /\ aud.last.startSec >= aud.last.prevUntil

\* A block whose leading part was dropped: it plays from a positive offset.
C18_Witness ==
  /\ aud.last.outcome = "scheduled"
  /\ aud.last.startOffsetSec > 0
  /\ ~aud.last.first

\* C19: a non-empty block is dropped as late exactly if
\* offset_sec = max(0, max(current_time, last_scheduled_end_sec) - ideal_start_sec)
\* is at least its duration, and is scheduled otherwise.
C19_LateIffOffsetCoversBlock ==
  LET idealStartSec == SecFromMs(aud.clockBaseWallClockMs)
                         + (aud.last.timestamp - aud.clockBaseTimestampUs)
      offsetSec == Max(0, Max(aud.last.now, aud.last.until) - idealStartSec) IN
  (aud.last.outcome # "none" /\ aud.last.duration > 0) =>
    /\ aud.last.outcome = "late" <=> offsetSec >= aud.last.duration
    /\ aud.last.outcome = "scheduled" <=> offsetSec < aud.last.duration

\* A block dropped as late although the device's time has not reached its
\* ideal start: what was scheduled before it covers it.
C19_Witness ==
  /\ aud.last.outcome = "late"
  /\ aud.last.duration > 0
  /\ aud.last.now < SecFromMs(aud.clockBaseWallClockMs)
                      + (aud.last.timestamp - aud.clockBaseTimestampUs)

\* C20: the first non-empty block that finds the clock not started starts it
\* at (block.timestamp, (current_time + 0.05 s) * 1000) and is scheduled to
\* start at current_time + 0.05 s; with current_time 1.0 s, duration 0.02 s
\* and timestamp 0 it starts at 1.05 s and last_scheduled_end is 1.07 s.
C20_FirstBlockStartsClock ==
  (aud.last.first /\ aud.last.duration > 0) =>
    /\ aud.clockStart = Some([timestampUs |-> aud.last.timestamp,
                              wallClockMs |-> (aud.last.now + 50000) \div 1000])
    /\ aud.last.outcome = "scheduled"
    /\ aud.last.startSec = aud.last.now + 50000
    /\ aud.last.startOffsetSec = 0
    /\ (aud.last.now = 1000000 /\ aud.last.duration = 20000 /\ aud.last.timestamp = 0) =>
         /\ aud.last.startSec = 1050000
         /\ aud.audioScheduledUntilSec = 1070000

\* The example of the claim.
C20_Witness ==
  /\ aud.last.first
  /\ aud.last.now = 1000000
  /\ aud.last.duration = 20000
  /\ aud.last.timestamp = 0
  /\ aud.last.startSec = 1050000

\* C21: on the selected MKV text track every block that carries a cue is
\* emitted at most once, and exactly once as soon as it has a BlockDuration,
\* a later block of the track has arrived or the stream has ended; a block
\* with BlockDuration gives [t, t + dur_us), one without gives [t, start of
\* the next block of the track) or, the stream ending first,
\* [t, t + 5 000 000).
C21_PendingCueClosedByNextBlock ==
  \A i \in 1..Len(sub.blocks) :
    LET b == sub.blocks[i]
        mine == {k \in 1..Len(sub.cues) : sub.cues[k].block = i}
        closed == b.ticks > 0 \/ i < Len(sub.blocks) \/ sub.finished IN
    b.hasText =>
      /\ Cardinality(mine) <= 1
      /\ closed => Cardinality(mine) = 1
      /\ \A k \in mine :
           /\ sub.cues[k].startUs = b.timestampUs
           /\ sub.cues[k].endUs =
                IF b.ticks > 0 THEN b.timestampUs + b.ticks * 1000
                ELSE IF i < Len(sub.blocks) THEN sub.blocks[i + 1].timestampUs
                ELSE b.timestampUs + 5000000

\* C22: when a read of the byte source has failed while open() was in
\* progress, open() has rejected: it has not resolved and is not left
\* pending (no read is in flight any more, so nothing can settle it later).
C22_ReadFailureRejectsOpen == opn.failed => opn.open = "rejected"

\* C23: after abort() of an HTTP byte source, in range mode and in
\* full-download mode, no read that was in flight at the abort and no read
\* started after it returns bytes.
C23_AbortFailsEveryRead ==
  \A k \in DOMAIN http.reads :
    (http.reads[k].afterAbort \/ http.reads[k].atAbort) => http.reads[k].state # "ok"

\* C24: every call of fetchWithRetry (the Range probe, the plain GET that
\* follows a failed Range probe, a range read, the full download) calls
\* fetch at most N + 1 times, N the retry count; the wait before retry k
\* (k = 0, 1, ...) is 300 ms * 2^k; it throws on a network error only after
\* N retries, and then the plain GET fails the open, a range read fails and
\* the download rejects the buffer; once the signal is aborted no further
\* request is sent.
C24_RetriesPerFetchCall ==
  \A i \in DOMAIN http.reqs :
    LET r == http.reqs[i] IN
    /\ r.maxRetries = http.retryCount
    /\ r.calls <= r.maxRetries + 1
    /\ r.calls = r.attempt + 1
    /\ Len(r.waits) = IF r.state = "sleep" THEN r.attempt + 1 ELSE r.attempt
    /\ \A k \in 0..(Len(r.waits) - 1) : r.waits[k + 1] = 300 * (2 ^ k)
    /\ r.state = "error" /\ r.abortedAt < 0 => r.calls = r.maxRetries + 1
    /\ r.state = "error" =>
         CASE r.kind = "range" -> http.reads[r.read].state = "failed"
           [] r.kind = "full" -> http.bufferPromise = "rejected"
           [] r.kind = "get" -> http.phase = "failed"
           [] OTHER -> TRUE
    /\ r.abortedAt >= 0 => r.sent = r.abortedAt

\* A read in range mode whose request was retried twice (N = 2), after
\* waits of 300 ms and 600 ms, and failed for good.
C24_Witness ==
  \E i \in DOMAIN http.reqs :
    /\ http.reqs[i].kind = "range"
    /\ http.reqs[i].state = "error"
    /\ http.reqs[i].abortedAt < 0
    /\ http.reqs[i].calls = 3
    /\ http.reqs[i].waits = <<300, 600>>

\* C24 with the probe taken as one request: all fetches of the probe
\* together are at most N + 1, and when the Range probe has failed for good
\* the open has failed.
C24_ProbeIsOneRequest ==
  LET probes == {i \in DOMAIN http.reqs : http.reqs[i].kind \in {"probe", "get"}}
      calls == IF \E i \in probes : http.reqs[i].kind = "get"
                 THEN http.reqs[1].calls + http.reqs[2].calls
                 ELSE http.reqs[1].calls IN
  /\ calls <= http.retryCount + 1
  /\ http.reqs[1].state = "error" => http.phase = "failed"

\* C25: openHttpByteSource returns a range-mode source exactly when the
\* probe response is 206 and its Content-Range gives a total; the size is
\* that total and every later read sends Range requests only.  Otherwise it
\* returns a full-download source: the whole resource is requested by one
\* fetchWithRetry call and never again, and every read that returns bytes,
\* whether reads follow or overlap each other, returns them from that one
\* download.
C25_ProbeDecidesMode ==
  LET ranges == {i \in DOMAIN http.reqs : http.reqs[i].kind = "range"}
      fulls == {i \in DOMAIN http.reqs : http.reqs[i].kind = "full"} IN
  http.mode # "none" =>
    /\ http.mode = "range" <=> (http.probeStatus = 206 /\ ~IsNull(http.probeSize))
    /\ http.mode = "range" =>
         /\ http.size = http.probeSize
         /\ fulls = {}
         /\ \A k \in DOMAIN http.reads :
              \/ Cardinality({i \in ranges : http.reqs[i].read = k}) = 1
              \/ http.reads[k].afterAbort /\ http.reads[k].state = "failed"
    /\ http.mode = "full" =>
         /\ ranges = {}
         /\ Cardinality(fulls) <= 1
         /\ (http.reads # <<>> \/ IsNull(http.probeSize)) => Cardinality(fulls) = 1
         /\ \A k \in DOMAIN http.reads :
              http.reads[k].state = "ok" =>
                /\ http.bufferPromise = "resolved"
                /\ \A i \in fulls : http.reqs[i].state = "done"

\* The probe response was 206 without a total: a full-download source, and
\* two reads that were waiting together got their bytes from one download.
C25_Witness ==
  /\ http.mode = "full"
  /\ http.probeStatus = 206
  /\ IsNull(http.probeSize)
  /\ Len(http.reads) = 2
  /\ \A k \in DOMAIN http.reads : http.reads[k].state = "ok"
  /\ Cardinality({i \in DOMAIN http.reqs : http.reqs[i].kind = "full"}) = 1

\* C25 as stated: range mode whenever the probe response is 206.
C25_RangeWhenever206 ==
  http.mode # "none" => (http.probeStatus = 206 <=> http.mode = "range")

\* C26: setRate(r), r > 0, on a running or paused clock leaves the reading
\* at the instant of the call unchanged, both when the session reads the
\* clock with the monotonic system time and when it reads it with the audio
\* device time.
C26_SetRateKeepsReading ==
  [][(clockLast'.op = "setRate" /\ wallMs' = wallMs /\ perfMs' = perfMs)
       => /\ MC_nowUs(clock', perfMs) = MC_nowUs(clock, perfMs)
          /\ MC_nowUs(clock', wallMs) = MC_nowUs(clock, wallMs)]_vars

\* C27: when a valid ADTS stream has gone through the TS audio path, in PES
\* payloads of whatever sizes, the data of the emitted audio chunks, put
\* together in order, are the bytes of the stream; and no byte was passed
\* over by resynchronisation, every byte of a valid stream being part of a
\* frame.
C27_ChunksAreTheStream ==
  adts.ended =>
    /\ Flatten(adts.chunks) = adts.stream
    /\ adts.skipped = 0

\* C28: a step that calls pumpWebCodecsDecoder (a chunk arrives, the
\* track ends, play(), a render tick that rendered or that submits) with q
\* chunks queued, d
\* chunks pending in the decoder and f frames in the ring submits nothing
\* when f >= capacity - 2, and otherwise chunks until the queue is empty or
\* 4 are pending: min(q, max(0, 4 - d)) chunks; the chunks are submitted
\* in queue order and each at most once: the chunks submitted so far
\* followed by the queue are the chunks delivered, in order.
C28_PumpSubmitsWhileBelowLimits ==
  [][LET pumped == \/ pmp'.produced # pmp.produced
                   \/ pmp'.demuxEnded # pmp.demuxEnded
                   \/ pmp.paused /\ ~pmp'.paused
                   \/ pmp'.rendered # pmp.rendered
                   \/ pmp'.submitted # pmp.submitted
         q == Len(pmp.encodedQueue) + (pmp'.produced - pmp.produced)
         d == Len(pmp.pending)
         f == RB_length(pmp'.frameQueue) IN
     /\ pumped =>
          Len(pmp'.submitted) - Len(pmp.submitted) =
            IF f < FrameQueueCapacity - 2 THEN Min(q, Max(0, 4 - d)) ELSE 0
     /\ pmp'.submitted \o pmp'.encodedQueue = [k \in 1..pmp'.produced |-> k]]_vars

\* A chunk arrived with capacity - 2 frames in the ring and nothing was
\* submitted, after an earlier pump had stopped at 4 chunks pending.
C28_Witness ==
  /\ RB_length(pmp.frameQueue) = FrameQueueCapacity - 2
  /\ Len(pmp.pending) = 0
  /\ Len(pmp.encodedQueue) > 0
  /\ Len(pmp.submitted) = FrameQueueCapacity - 2
  /\ pmp.rendered = <<>>

\* C28 as stated: chunks are submitted while pending <= 4 and the ring
\* holds <= capacity - 2 frames.
C28_PumpSubmitsWhileAtLimits ==
  [][LET pumped == \/ pmp'.produced # pmp.produced
                   \/ pmp'.demuxEnded # pmp.demuxEnded
                   \/ pmp.paused /\ ~pmp'.paused
                   \/ pmp'.rendered # pmp.rendered
                   \/ pmp'.submitted # pmp.submitted
         q == Len(pmp.encodedQueue) + (pmp'.produced - pmp.produced)
         d == Len(pmp.pending)
         f == RB_length(pmp'.frameQueue) IN
     pumped =>
       Len(pmp'.submitted) - Len(pmp.submitted) =
         IF f <= FrameQueueCapacity - 2 THEN Min(q, Max(0, 5 - d)) ELSE 0]_vars

\* C29: in a session each decoder is flushed at most once, and a flush is
\* issued only when the demuxer has reported the end of the track and the
\* encoded queue is empty.  Once the video track has ended and the video
\* queue is empty the video flush has been issued; once the audio track has
\* ended and the audio queue is empty the audio flush has been issued by
\* the first call of pumpAudioDecoder that the 2 s lookahead does not send
\* back (a session whose audio decoder was closed has nothing to flush).
\* A flush promise that rejects, or resolves, changes nothing else in the
\* session.
C29_OneFlushAtEndOfStream ==
  /\ [](/\ Len(pmp.flushes) <= 1
        /\ Len(pmp.audioFlushes) <= 1
        /\ \A i \in 1..Len(pmp.flushes) :
             pmp.flushes[i].demuxEnded /\ pmp.flushes[i].queue = 0
        /\ \A i \in 1..Len(pmp.audioFlushes) :
             pmp.audioFlushes[i].demuxEnded /\ pmp.audioFlushes[i].queue = 0
        /\ (pmp.demuxEnded /\ pmp.encodedQueue = <<>>) => Len(pmp.flushes) = 1
        /\ (/\ pmp.audioDecoder
            /\ pmp.audioDemuxEnded
            /\ pmp.encodedAudioQueue = 0
            /\ ~pmp.audioHeld) => Len(pmp.audioFlushes) = 1
        /\ pmp.decodeFlushPromise <=> Len(pmp.flushes) = 1
        /\ pmp.audioDecodeFlushPromise <=> Len(pmp.audioFlushes) = 1)
  /\ [][/\ (pmp.flush = "pending" /\ pmp'.flush # "pending")
             => pmp' = [pmp EXCEPT !.flush = pmp'.flush]
        /\ (pmp.audioFlush = "pending" /\ pmp'.audioFlush # "pending")
             => pmp' = [pmp EXCEPT !.audioFlush = pmp'.audioFlush]]_vars

\* Both tracks of a session have ended with chunks decoded, each decoder
\* was flushed, and both flushes failed.
C29_Witness ==
  /\ pmp.audioTrack
  /\ pmp.produced > 0
  /\ pmp.audioDecoded > 0
  /\ Len(pmp.flushes) = 1
  /\ Len(pmp.audioFlushes) = 1
  /\ pmp.flush = "rejected"
  /\ pmp.audioFlush = "rejected"
  /\ ~pmp.paused

\* C30: the frames are rendered in the order of their timestamps, a frame
\* is rendered only when its timestamp is not after the reading of the
\* clock, the next render tick renders every frame in the ring whose time
\* has come, and no frame is passed over: every frame the decoder has
\* output before a rendered frame has been rendered too.
C30_FramesRenderedInOrderNoneSkipped ==
  LET decoded == Len(pmp.submitted) - Len(pmp.pending)
      tick == PUMP_loop(pmp, FALSE)
      waiting == RB_contents(pmp.frameQueue) IN
  /\ \A i, j \in 1..Len(pmp.rendered) : i < j => pmp.rendered[i] < pmp.rendered[j]
  /\ \A i \in 1..Len(pmp.rendered) : pmp.rendered[i] <= pmp.nowUs
  /\ (~pmp.paused /\ tick.clockStarted) =>
       \A k \in 1..Len(waiting) :
         waiting[k] <= tick.nowUs => \E i \in 1..Len(tick.rendered) : tick.rendered[i] = waiting[k]
  /\ \A f \in 1..decoded :
       (\E i \in 1..Len(pmp.rendered) : f < pmp.rendered[i])
         => \E i \in 1..Len(pmp.rendered) : pmp.rendered[i] = f

\* C31: a video frame decoded while the session waits for audio leaves the
\* clock unstarted; a render tick of a session that is not paused, has
\* waited for audio for more than a second and has a frame in the ring
\* starts the clock at the timestamp of the oldest frame in the ring; and
\* from every state in which a video frame has been decoded the session
\* comes to a state in which the clock is started or the player is paused.
C31_ClockEventuallyStarted ==
  /\ [][/\ (pmp.waitingForAudioClock /\ Len(pmp'.pending) < Len(pmp.pending)
             /\ pmp'.audioDecoded = pmp.audioDecoded /\ pmp'.audioDecoder = pmp.audioDecoder)
              => pmp'.clockStarted = pmp.clockStarted
        /\ (/\ ~pmp.paused /\ pmp.renderLoopRaf
            /\ ~pmp.clockStarted /\ pmp.waitingForAudioClock /\ pmp.startedLongAgo
            /\ RB_length(pmp.frameQueue) > 0
            /\ \E ahead \in BOOLEAN : pmp' = PUMP_loop(pmp, ahead))
              => pmp'.clockStarted /\ pmp'.nowUs = RB_peek(pmp.frameQueue)]_vars
  /\ (Len(pmp.submitted) > Len(pmp.pending)) ~> (pmp.clockStarted \/ pmp.paused)

\* C32: while an MKV extraction stays paused (from pauseExtraction() to the
\* next resumeExtraction()) no chunk and no end of track is delivered;
\* resumeExtraction() leaves no loop on a resume waiter; and a loop leaves
\* its waiter at the position at which it went onto it.
C32_PausedMkvDeliversNothing ==
  [][ctl.kind = "mkv" =>
       /\ (ctl.paused /\ ctl'.paused)
            => ctl'.chunks = ctl.chunks /\ ctl'.ends = ctl.ends
       /\ (ctl.paused /\ ~ctl'.paused)
            => \A k \in Opens : ctl'.loops[k].pc # "parked"
       /\ \A k \in Opens :
            ctl.loops[k].pc = "parked" => ctl'.loops[k].pos = ctl.loops[k].pos]_vars

\* C33: on an MKV or TS demuxer the end callback installed for a track is
\* called at most once, no chunk is delivered to a callback after the end
\* of its track was reported, and once the extract loop of the open file
\* has returned on a demuxer that is not stopped, every track whose
\* extraction was started has had its end callback called exactly once.
C33_EndOfTrackExactlyOnce ==
  /\ \A k \in Opens : ctl.endsOf[k] <= 1 /\ ctl.subtitleEndsOf[k] <= 1
  /\ ~ctl.chunkAfterEnd
  /\ (/\ ~ctl.stopped
      /\ ctl.file # 0
      /\ ctl.loops[ctl.file].pc = "done"
      /\ ctl.microtasks = 0)
       => /\ ctl.onEnd = ctl.file => ctl.endsOf[ctl.file] = 1
          /\ ctl.onSubtitleEnd = ctl.file => ctl.subtitleEndsOf[ctl.file] = 1

\* C34: when the TS extract loop has returned, the chunk callback has got
\* every PES of the input once and in the order of the input, as in a run
\* without pauses, wherever extraction was paused and resumed.
C34_PauseLosesNothing ==
  tsx.ended =>
    tsx.delivered = [k \in 1..(tsx.size * PacketsPerBuffer) |-> k]

\* C35: back-pressure never deadlocks a session: when extraction is paused, the
\* player is not paused and both encoded queues are at or below the low-water
\* mark, resumeExtraction is eventually called - also after a failure of the
\* audio decoder, with audio buffered ahead, and with an empty frame ring.
\* For the call to come, some handler that can still run without the user
\* must change the session: where every handler leaves the session as it is,
\* nothing is ever called again.
C35_BackpressureNeverDeadlocks ==
  (/\ dmxs[1].paused
   /\ ~wp.paused
   /\ wp.encodedQueue <= LowWater
   /\ wp.encodedAudioQueue <= LowWater) => ENABLED <<NextBp>>_vars

\* C36: between pause() and the next play() the reading of getCurrentTimeUs()
\* stays what it was when pause() was called, whatever video frames and audio
\* blocks the decoders output meanwhile, and right after play() the reading
\* is still that value.
C36_PausedClockStandsStill ==
  /\ [](pck.userPaused => PCK_getCurrentTimeUs(pck) = pck.atPause)
  /\ [][pck.userPaused /\ ~pck'.userPaused
          => PCK_getCurrentTimeUs(pck') = pck.atPause]_vars

\* C37: within a session audioScheduledUntilSec (last_scheduled_end_sec) never
\* decreases, and every source that is started starts at or after the audio
\* device's current time and at or after the end of every source started
\* before it, so the sources never overlap on the device timeline.
C37_SourcesNeverOverlap ==
  /\ [][aud'.audioScheduledUntilSec >= aud.audioScheduledUntilSec]_vars
  /\ [][AudioData /\ aud'.last.outcome = "scheduled"
          => /\ aud'.last.startSec >= aud.currentTime
             /\ aud'.last.startSec >= aud.scheduledEndSec]_vars

\* A source was started after an earlier one, later than its ideal start.
C37_Witness ==
  /\ aud.last.outcome = "scheduled"
  /\ aud.last.prevUntil > aud.start
  /\ aud.last.startOffsetSec > 0
  /\ aud.scheduledEndSec > aud.last.prevUntil

\* C38: once the selected MKV subtitle track has been switched or subtitles
\* turned off, no cue made from a block of the track selected before (the
\* result of a PGS scan still running included) reaches the cue handler:
\* every cue delivered comes from a block of the track selected at that
\* moment and is decoded with that track's codec.
C38_NoCueOfDeselectedTrack ==
  \A i \in 1..Len(sw.cues) :
    /\ sw.cues[i].track = sw.cues[i].selected
    /\ sw.cues[i].codecId = SwCodecId(sw.cues[i].selected)

\* C39: with the pump submitting a chunk only while fewer than 4 chunks are
\* in the decoder and the ring holds fewer than capacity - 2 frames, the
\* frame ring never overflows: no decoded frame is evicted and closed
\* without having been rendered.
C39_RingNeverOverflows == pmp.evicted = 0

\* C40: in every state of a WebCodecs session neither the encoded video queue
\* nor the encoded audio queue is longer than the high-water mark plus the
\* chunks the demuxer can deliver before it observes the pause, also after
\* the audio decoder has failed.
C40_EncodedQueuesBounded ==
  /\ wp.encodedQueue <= HighWater + MaxOverrun
  /\ wp.encodedAudioQueue <= HighWater + MaxOverrun

\* C5: from pause() on a WebCodecs session until the next play(), as long as
\* the session is a WebCodecs session, the paused flag is true and no demuxer
\* of the player is extracting.
C5_PausedStaysPaused ==
  (ghost.userPaused /\ WP_isWebCodecsPipeline(World)) =>
    /\ wp.paused
    /\ \A id \in LoadIds : ~DMX_running(dmxs[id])

\* C6: every VideoFrame handed to the orchestrator is closed exactly once: a
\* frame that is in the ring has not been closed, a frame that has left the
\* ring has been closed once.
C6_FramesClosedOnce ==
  \A f \in FrameIds :
    f <= ghost.frames =>
      LET inRing == \E i \in 1..RB_length(wp.frameQueue) : RB_contents(wp.frameQueue)[i] = f IN
      closes[f] = IF inRing THEN 0 ELSE 1

=============================================================================
